---- MODULE Spec2Model ----
(***************************************************************************)
(* Model of api/calendar.js: the ICS feed handler with its tiered cache,   *)
(* cascading fetch, line parser and filter/sort/format pipeline.           *)
(*                                                                         *)
(* Conventions.                                                            *)
(*  - Instants and durations are counted in SECONDS (the code counts       *)
(*    milliseconds; every duration of the code is a whole number of        *)
(*    seconds).  An instant is the number of seconds since 1970-01-01      *)
(*    00:00 and has to stay in 1970..2037.                                 *)
(*  - The process runs with local time = UTC, so new Date(y, m, d, ...)    *)
(*    and Date.UTC(y, m, d, ...) denote the same instant.                  *)
(*  - A JavaScript string is a sequence of symbols.  A symbol is a single  *)
(*    character, except that the fixed words of the ICS grammar            *)
(*    ("BEGIN:VEVENT", "SUMMARY:", "DTSTART", "TZID=", ...) are one        *)
(*    symbol each.                                                         *)
(*  - null is the record [kind |-> "null"] for a Date, and the empty set   *)
(*    for an array reference (a present array a is {a}).                   *)
(***************************************************************************)
EXTENDS Integers, Sequences, FiniteSets, TLC

(***************************************************************************)
(* Strings                                                                 *)
(***************************************************************************)
Digits == <<"0", "1", "2", "3", "4", "5", "6", "7", "8", "9">>

IsDigit(c) == \E i \in 1..10 : Digits[i] = c

DigitVal(c) == (CHOOSE i \in 1..10 : Digits[i] = c) - 1

\* NaN, the number parseInt returns when it can read no digit (no number the
\* code reads from the digits of its inputs is this one).
NaN == -1000000

\* str.indexOf(c, from): 0-based position of the first c at or after from, else -1.
IndexOfFrom(str, c, from) ==
    IF \E i \in (from + 1)..Len(str) : str[i] = c
    THEN (CHOOSE i \in (from + 1)..Len(str) :
              /\ str[i] = c
              /\ \A j \in (from + 1)..(i - 1) : str[j] # c) - 1
    ELSE -1

IndexOf(str, c) == IndexOfFrom(str, c, 0)

Includes(str, c) == IndexOf(str, c) # -1

\* str.substring(from)
Substring(str, from) == SubSeq(str, from + 1, Len(str))

\* str.substr(from, n)
Substr(str, from, n) ==
    SubSeq(str, from + 1, IF from + n <= Len(str) THEN from + n ELSE Len(str))

EndsWith(str, c) == Len(str) > 0 /\ str[Len(str)] = c

StartsWith(str, c) == Len(str) > 0 /\ str[1] = c

\* str.replace(c, ''): the first occurrence of c removed.
ReplaceFirst(str, c) ==
    IF Includes(str, c)
    THEN SubSeq(str, 1, IndexOf(str, c)) \o Substring(str, IndexOf(str, c) + 1)
    ELSE str

RECURSIVE TrimLeft(_)
TrimLeft(str) ==
    IF Len(str) > 0 /\ str[1] = " " THEN TrimLeft(Tail(str)) ELSE str

RECURSIVE TrimRight(_)
TrimRight(str) ==
    IF Len(str) > 0 /\ str[Len(str)] = " "
    THEN TrimRight(SubSeq(str, 1, Len(str) - 1))
    ELSE str

\* str.trim()
Trim(str) == TrimRight(TrimLeft(str))

\* parseInt(str, 10): the value of the longest prefix of digits, NaN if empty.
RECURSIVE ParseDigits(_, _)
ParseDigits(str, acc) ==
    IF Len(str) > 0 /\ IsDigit(str[1])
    THEN ParseDigits(Tail(str), acc * 10 + DigitVal(str[1]))
    ELSE acc

\* Leading blanks are skipped and a sign is read before the digits.
ParseInt(str) ==
    LET s      == TrimLeft(str)
        signed == Len(s) > 0 /\ s[1] \in {"+", "-"}
        digits == IF signed THEN Tail(s) ELSE s
    IN  IF Len(digits) > 0 /\ IsDigit(digits[1])
        THEN IF signed /\ s[1] = "-" THEN 0 - ParseDigits(digits, 0)
             ELSE ParseDigits(digits, 0)
        ELSE NaN

LowerOf(c) ==
    CASE c = "A" -> "a"
      [] c = "B" -> "b"
      [] c = "L" -> "l"
      [] c = "M" -> "m"
      [] OTHER -> c

\* str.toLowerCase()
ToLowerCase(str) == [i \in 1..Len(str) |-> LowerOf(str[i])]

\* str.includes(sub) for a string sub
IncludesStr(str, sub) ==
    \E i \in 0..(Len(str) - Len(sub)) : SubSeq(str, i + 1, i + Len(sub)) = sub

(***************************************************************************)
(* Dates                                                                   *)
(***************************************************************************)
SecondsPerMinute == 60
SecondsPerHour == 3600
SecondsPerDay == 86400

\* Days from 1970-01-01 to the civil date y-m-d (m in 1..12).
DaysFromCivil(y, m, d) ==
    LET yy  == IF m <= 2 THEN y - 1 ELSE y
        era == yy \div 400
        yoe == yy - era * 400
        mp  == IF m > 2 THEN m - 3 ELSE m + 9
        doy == (153 * mp + 2) \div 5 + d - 1
        doe == yoe * 365 + yoe \div 4 - yoe \div 100 + doy
    IN  era * 146097 + doe - 719468

NullDate == [kind |-> "null"]
InvalidDate == [kind |-> "Invalid Date"]
DateOf(t) == [kind |-> "Date", time |-> t]

\* new Date(year, month, day, hour, minute, second), month 0-based and any
\* field out of its range carried over, Invalid Date when a field is NaN.
NewDate(year, month, day, hour, minute, second) ==
    IF NaN \in {year, month, day, hour, minute, second}
    THEN InvalidDate
    ELSE DateOf(DaysFromCivil(year + (month \div 12), (month % 12) + 1, 1) * SecondsPerDay
                + (day - 1) * SecondsPerDay
                + hour * SecondsPerHour + minute * SecondsPerMinute + second)

Years == 1970..2037
YearStart(y) == DaysFromCivil(y, 1, 1) * SecondsPerDay

\* date.getFullYear(); NaN for an Invalid Date.
getFullYear(date) ==
    IF date.kind = "Date"
    THEN CHOOSE y \in Years : YearStart(y) <= date.time /\ date.time < YearStart(y + 1)
    ELSE NaN

getTime(date) == date.time
getHours(date) == (date.time % SecondsPerDay) \div SecondsPerHour
getMinutes(date) == (date.time % SecondsPerHour) \div SecondsPerMinute

\* new Date(now.getFullYear(), now.getMonth(), now.getDate()): local midnight.
StartOfDay(t) == t - (t % SecondsPerDay)

(***************************************************************************)
(* parseICSDate                                                            *)
(***************************************************************************)
\* The date-time branch (the value holds a 'T').
parseDateTime(dateStr, isUTC) ==
    LET cleanDateStr == ReplaceFirst(dateStr, "Z")
        year     == ParseInt(Substr(cleanDateStr, 0, 4))
        monthRaw == ParseInt(Substr(cleanDateStr, 4, 2))
        month    == IF monthRaw = NaN THEN NaN ELSE monthRaw - 1
        day      == ParseInt(Substr(cleanDateStr, 6, 2))
        hour     == ParseInt(Substr(cleanDateStr, 9, 2))
        minute   == ParseInt(Substr(cleanDateStr, 11, 2))
        secRaw   == ParseInt(Substr(cleanDateStr, 13, 2))
        second   == IF secRaw = NaN THEN 0 ELSE secRaw
    IN  IF Len(cleanDateStr) < 15
        THEN NullDate
        ELSE NewDate(year, month, day, hour, minute, second)

\* The date-only branch.
parseDateOnly(dateStr) ==
    LET year     == ParseInt(Substr(dateStr, 0, 4))
        monthRaw == ParseInt(Substr(dateStr, 4, 2))
        month    == IF monthRaw = NaN THEN NaN ELSE monthRaw - 1
        day      == ParseInt(Substr(dateStr, 6, 2))
    IN  IF Len(dateStr) < 8 THEN NullDate ELSE NewDate(year, month, day, 0, 0, 0)

parseICSDate(icsLine) ==
    LET colonIndex == IndexOf(icsLine, ":")
        firstStr   == Substring(icsLine, colonIndex + 1)
        isUTC      == EndsWith(firstStr, "Z")
        tzidIndex  == IndexOf(icsLine, "TZID=")
        tzStart    == IndexOfFrom(icsLine, ":", tzidIndex)
        dateStr    == IF tzidIndex # -1 /\ tzStart # -1
                      THEN Substring(icsLine, tzStart + 1)
                      ELSE firstStr
    IN  IF colonIndex = -1 THEN NullDate
        ELSE IF Len(dateStr) < 8 THEN NullDate
        ELSE IF Includes(dateStr, "T") THEN parseDateTime(dateStr, isUTC)
        ELSE parseDateOnly(dateStr)

(***************************************************************************)
(* parseCalendarData                                                       *)
(*                                                                         *)
(* An event under construction is a record that has a field only once the  *)
(* code has assigned it; currentEvent is <<>> for null and <<e>> for an    *)
(* object e.                                                               *)
(***************************************************************************)
EmptyEvent == [f \in {} |-> 0]

SetField(e, f, v) == (f :> v) @@ e

Has(e, f) == f \in DOMAIN e

\* A test that accepts a date of any year.
DateAcceptedAnyYear(date) == date.kind = "Date"

\* date && date.getFullYear() > 2020
DateAccepted(date) == date.kind # "null" /\ getFullYear(date) > 2020

\* The test of END:VEVENT without the test of the summary.
EventCompleteWithoutSummary(currentEvent) ==
    /\ Len(currentEvent) = 1
    /\ Has(currentEvent[1], "dtstart")

\* currentEvent && currentEvent.summary && currentEvent.dtstart
EventComplete(currentEvent) ==
    /\ Len(currentEvent) = 1
    /\ Has(currentEvent[1], "summary") /\ Len(currentEvent[1].summary) > 0
    /\ Has(currentEvent[1], "dtstart")

\* An iteration that gives up the event under construction on a DTEND line
\* whose date is refused.
parseLineDroppingEvent(st, rawLine, today) ==
    LET line == Trim(rawLine)
        cur  == st.currentEvent
    IN  IF line = <<"BEGIN:VEVENT">>
        THEN [st EXCEPT !.currentEvent = <<EmptyEvent>>]
        ELSE IF line = <<"END:VEVENT">>
        THEN [events |-> IF EventComplete(cur) /\ getTime(cur[1].dtstart) >= today
                         THEN Append(st.events, cur[1])
                         ELSE st.events,
              currentEvent |-> <<>>]
        ELSE IF Len(cur) = 1
        THEN IF StartsWith(line, "SUMMARY:")
             THEN [st EXCEPT !.currentEvent = <<SetField(cur[1], "summary", Tail(line))>>]
             ELSE IF StartsWith(line, "DTSTART")
             THEN IF DateAccepted(parseICSDate(line))
                  THEN [st EXCEPT !.currentEvent =
                            <<SetField(cur[1], "dtstart", parseICSDate(line))>>]
                  ELSE st
             ELSE IF StartsWith(line, "DTEND")
             THEN IF DateAccepted(parseICSDate(line))
                  THEN [st EXCEPT !.currentEvent =
                            <<SetField(cur[1], "dtend", parseICSDate(line))>>]
                  ELSE [st EXCEPT !.currentEvent = <<>>]
             ELSE st
        ELSE st

\* An iteration that keeps the event under construction on a BEGIN:VEVENT
\* line met inside a block.
parseLineKeepingBuilder(st, rawLine, today) ==
    LET line == Trim(rawLine)
        cur  == st.currentEvent
    IN  IF line = <<"BEGIN:VEVENT">>
        THEN IF Len(cur) = 1 THEN st ELSE [st EXCEPT !.currentEvent = <<EmptyEvent>>]
        ELSE IF line = <<"END:VEVENT">>
        THEN [events |-> IF EventComplete(cur) /\ getTime(cur[1].dtstart) >= today
                         THEN Append(st.events, cur[1])
                         ELSE st.events,
              currentEvent |-> <<>>]
        ELSE IF Len(cur) = 1
        THEN IF StartsWith(line, "SUMMARY:")
             THEN [st EXCEPT !.currentEvent = <<SetField(cur[1], "summary", Tail(line))>>]
             ELSE IF StartsWith(line, "DTSTART")
             THEN IF DateAccepted(parseICSDate(line))
                  THEN [st EXCEPT !.currentEvent =
                            <<SetField(cur[1], "dtstart", parseICSDate(line))>>]
                  ELSE st
             ELSE IF StartsWith(line, "DTEND")
             THEN IF DateAccepted(parseICSDate(line))
                  THEN [st EXCEPT !.currentEvent =
                            <<SetField(cur[1], "dtend", parseICSDate(line))>>]
                  ELSE st
             ELSE st
        ELSE st

\* One iteration of the loop over the lines: st = [events, currentEvent].
parseLine(st, rawLine, today) ==
    LET line == Trim(rawLine)
        cur  == st.currentEvent
    IN  IF line = <<"BEGIN:VEVENT">>
        THEN [st EXCEPT !.currentEvent = <<EmptyEvent>>]
        ELSE IF line = <<"END:VEVENT">>
        THEN [events |-> IF EventComplete(cur) /\ getTime(cur[1].dtstart) >= today
                         THEN Append(st.events, cur[1])
                         ELSE st.events,
              currentEvent |-> <<>>]
        ELSE IF Len(cur) = 1
        THEN IF StartsWith(line, "SUMMARY:")
             THEN [st EXCEPT !.currentEvent = <<SetField(cur[1], "summary", Tail(line))>>]
             ELSE IF StartsWith(line, "DTSTART")
             THEN IF DateAccepted(parseICSDate(line))
                  THEN [st EXCEPT !.currentEvent =
                            <<SetField(cur[1], "dtstart", parseICSDate(line))>>]
                  ELSE st
             ELSE IF StartsWith(line, "DTEND")
             THEN IF DateAccepted(parseICSDate(line))
                  THEN [st EXCEPT !.currentEvent =
                            <<SetField(cur[1], "dtend", parseICSDate(line))>>]
                  ELSE st
             ELSE st
        ELSE st

RECURSIVE parseLines(_, _, _)
parseLines(st, lines, today) ==
    IF lines = <<>> THEN st
    ELSE parseLines(parseLine(st, Head(lines), today), Tail(lines), today)

\* The array parseCalendarData(icsData) returns when `today` is the local
\* midnight it computes from new Date().
parseEvents(icsData, today) ==
    parseLines([events |-> <<>>, currentEvent |-> <<>>], icsData.lines, today).events

(***************************************************************************)
(* The filter / sort / limit / format pipeline of the handler              *)
(***************************************************************************)
\* The keyword trimmed and left in the case it was typed in.
KeywordOfAsTyped(query) ==
    IF query.keyword = <<>> THEN <<>> ELSE <<Trim(query.keyword[1])>>

\* req.query.keyword?.toString().trim().toLowerCase(); <<>> when the
\* parameter is absent (undefined), else <<the string>>.
KeywordOf(query) ==
    IF query.keyword = <<>> THEN <<>> ELSE <<ToLowerCase(Trim(query.keyword[1]))>>

\* if (keyword): undefined and the empty string are falsy.
Truthy(keyword) == keyword # <<>> /\ Len(keyword[1]) > 0

RECURSIVE SelectEvents(_, _)
SelectEvents(events, kw) ==
    IF events = <<>> THEN <<>>
    ELSE IF IncludesStr(ToLowerCase(Head(events).summary), kw)
         THEN <<Head(events)>> \o SelectEvents(Tail(events), kw)
         ELSE SelectEvents(Tail(events), kw)

\* events.filter(event => event.summary.toLowerCase().includes(keyword))
KeywordFilter(events, keyword) ==
    IF Truthy(keyword) THEN SelectEvents(events, keyword[1]) ELSE events

\* Insertion of e before the elements that start when it starts.
RECURSIVE InsertSortedBeforeEquals(_, _)
InsertSortedBeforeEquals(sorted, e) ==
    IF sorted = <<>> THEN <<e>>
    ELSE IF getTime(Head(sorted).dtstart) - getTime(e.dtstart) >= 0
         THEN <<e>> \o sorted
         ELSE <<Head(sorted)>> \o InsertSortedBeforeEquals(Tail(sorted), e)

\* Insertion of e after every element that does not come after it.
RECURSIVE InsertSorted(_, _)
InsertSorted(sorted, e) ==
    IF sorted = <<>> THEN <<e>>
    ELSE IF getTime(Head(sorted).dtstart) - getTime(e.dtstart) > 0
         THEN <<e>> \o sorted
         ELSE <<Head(sorted)>> \o InsertSorted(Tail(sorted), e)

RECURSIVE SortFrom(_, _)
SortFrom(sorted, rest) ==
    IF rest = <<>> THEN sorted
    ELSE SortFrom(InsertSorted(sorted, Head(rest)), Tail(rest))

\* array.sort((a, b) => a.dtstart.getTime() - b.dtstart.getTime()): the
\* content of the array after the call (Array.prototype.sort is stable).
SortByStart(events) == SortFrom(<<>>, events)

\* parseInt(req.query.limit) || 100
DefaultLimit == 100

LimitOf(query) ==
    IF query.limit = <<>> \/ ParseInt(query.limit[1]) = NaN \/ ParseInt(query.limit[1]) = 0
    THEN DefaultLimit
    ELSE ParseInt(query.limit[1])

\* A truncation that keeps one element more than the limit.
TruncateAfterLimit(events, limit) ==
    IF Len(events) > limit + 1 THEN SubSeq(events, 1, limit + 1) ELSE events

\* if (filtered.length > limit) filtered = filtered.slice(0, limit)
\* (slice counts a negative end from the end of the array)
Truncate(events, limit) ==
    IF Len(events) > limit
    THEN SubSeq(events, 1, IF limit >= 0 THEN limit
                           ELSE IF Len(events) + limit > 0 THEN Len(events) + limit
                           ELSE 0)
    ELSE events

\* The civil date <<y, m, d>> (m in 1..12) of the day counted from 1970-01-01.
CivilFromDays(day) ==
    LET z   == day + 719468
        era == z \div 146097
        doe == z - era * 146097
        yoe == (doe - doe \div 1460 + doe \div 36524 - doe \div 146096) \div 365
        doy == doe - (365 * yoe + yoe \div 4 - yoe \div 100)
        mp  == (5 * doy + 2) \div 153
        m   == IF mp < 10 THEN mp + 3 ELSE mp - 9
    IN  <<yoe + era * 400 + (IF m <= 2 THEN 1 ELSE 0), m, doy - (153 * mp + 2) \div 5 + 1>>

\* The day, counted from 1970-01-01, of the last Sunday of a month of 31 days
\* (1970-01-01 was a Thursday).
LastSunday(y, m) ==
    LET d == DaysFromCivil(y, m, 31) IN d - ((d + 4) % 7)

\* timeZone: 'Europe/Rome': the seconds its wall clock is ahead of UTC, two
\* hours from 01:00 UTC of the last Sunday of March to 01:00 UTC of the last
\* Sunday of October and one hour otherwise.
RomeOffset(t) ==
    LET y == CivilFromDays(t \div SecondsPerDay)[1]
    IN  IF /\ LastSunday(y, 3) * SecondsPerDay + SecondsPerHour <= t
           /\ t < LastSunday(y, 10) * SecondsPerDay + SecondsPerHour
        THEN 2 * SecondsPerHour
        ELSE SecondsPerHour

\* date.toLocaleDateString('it-IT', {timeZone: 'Europe/Rome', year: 'numeric',
\* month: '2-digit', day: '2-digit'}): "dd/mm/yyyy" as <<dd, mm, yyyy>>.
toLocaleDateString(date) ==
    LET wall == date.time + RomeOffset(date.time)
        ymd  == CivilFromDays(wall \div SecondsPerDay)
    IN  <<ymd[3], ymd[2], ymd[1]>>

\* date.toLocaleTimeString('it-IT', {hour: '2-digit', minute: '2-digit',
\* timeZone: 'Europe/Rome'}): "hh:mm" as <<hh, mm>>.
toLocaleTimeString(date) ==
    LET wall == date.time + RomeOffset(date.time)
    IN  <<(wall % SecondsPerDay) \div SecondsPerHour,
          (wall % SecondsPerHour) \div SecondsPerMinute>>

\* An all-day test that looks at the start only.
IsAllDayByStart(event) ==
    \/ ~Has(event, "dtend")
    \/ getHours(event.dtstart) = 0 /\ getMinutes(event.dtstart) = 0

IsAllDay(event) ==
    \/ ~Has(event, "dtend")
    \/ /\ getHours(event.dtstart) = 0 /\ getMinutes(event.dtstart) = 0
       /\ getHours(event.dtend) = 0 /\ getMinutes(event.dtend) = 0

\* One element of formattedEvents.  startDate and endDate stand for the ISO
\* strings (the instant they print), endDate is <<>> for null.  A formatted
\* string is its date part and its time part, the time part <<>> when the
\* string has none; endFormatted is <<>> for null.
FormatEvent(event) ==
    [summary   |-> event.summary,
     startDate |-> getTime(event.dtstart),
     endDate   |-> IF Has(event, "dtend") THEN <<getTime(event.dtend)>> ELSE <<>>,
     startFormatted |->
         [date |-> toLocaleDateString(event.dtstart),
          time |-> IF IsAllDay(event) THEN <<>>
                   ELSE <<toLocaleTimeString(event.dtstart)>>],
     endFormatted |->
         IF Has(event, "dtend") /\ ~IsAllDay(event)
         THEN <<[date |-> toLocaleDateString(event.dtend),
                 time |-> <<toLocaleTimeString(event.dtend)>>]>>
         ELSE <<>>,
     isAllDay  |-> IsAllDay(event)]

\* The array `filtered` at the end of the pipeline, for the array `events`.
Filtered(events, query) ==
    Truncate(SortByStart(KeywordFilter(events, KeywordOf(query))), LimitOf(query))

\* filtered.map(event => ...)
Formatted(filtered) == [i \in 1..Len(filtered) |-> FormatEvent(filtered[i])]

FormattedEvents(events, query) == Formatted(Filtered(events, query))

\* What the pipeline leaves in the array `events` itself: without a keyword
\* `filtered` is the same array and sort() reorders it in place.
AfterPipeline(events, query) ==
    IF Truthy(KeywordOf(query)) THEN events ELSE SortByStart(events)

(***************************************************************************)
(* The upstream: the bodies the feed URL may answer with                   *)
(***************************************************************************)
D20261101 == <<"2", "0", "2", "6", "1", "1", "0", "1">>
D20261102 == <<"2", "0", "2", "6", "1", "1", "0", "2">>
D20261103 == <<"2", "0", "2", "6", "1", "1", "0", "3">>
D20201103 == <<"2", "0", "2", "0", "1", "1", "0", "3">>
T0900 == <<"T", "0", "9", "0", "0", "0", "0">>
T1000 == <<"T", "1", "0", "0", "0", "0", "0">>
T0000 == <<"T", "0", "0", "0", "0", "0", "0">>

\* A calendar whose events are not in order of start; the first has an end,
\* the last an end of a year the parser refuses.
FeedA ==
    [length |-> 420,
     lines  |-> << <<"BEGIN:VCALENDAR">>,
                   <<"BEGIN:VEVENT">>,
                   <<"SUMMARY:", "M", "a", "t", "h">>,
                   <<"DTSTART", ":">> \o D20261103 \o T0900 \o <<"Z">>,
                   <<"DTEND", ":">> \o D20261103 \o T1000 \o <<"Z">>,
                   <<"END:VEVENT">>,
                   <<"BEGIN:VEVENT">>,
                   <<"SUMMARY:", "a", "b">>,
                   <<"DTSTART", ";", "VALUE=DATE", ":">> \o D20261101,
                   <<"END:VEVENT">>,
                   <<"BEGIN:VEVENT">>,
                   <<" ", "SUMMARY:", "A", "m", "a">>,
                   <<"DTSTART", ";", "TZID=", "Europe/Rome", ":">> \o D20261102 \o T0000,
                   <<"DTEND", ":">> \o D20201103 \o T0000,
                   <<"END:VEVENT">>,
                   <<"END:VCALENDAR">> >>]

\* A bare list of events: one well-formed, one without a start, one of a
\* refused year, and one left open.
FeedB ==
    [length |-> 260,
     lines  |-> << <<"BEGIN:VEVENT">>,
                   <<"SUMMARY:", "b">>,
                   <<"DTSTART", ":">> \o D20261102,
                   <<"DTEND", ":">> \o D20261103,
                   <<"END:VEVENT">>,
                   <<"BEGIN:VEVENT">>,
                   <<"SUMMARY:", "m", "a">>,
                   <<"DTSTART", ":", "2", "0", "2", "6">>,
                   <<"END:VEVENT">>,
                   <<"BEGIN:VEVENT">>,
                   <<"SUMMARY:", "o", "l", "d">>,
                   <<"DTSTART", ":">> \o D20201103,
                   <<"END:VEVENT">>,
                   <<"BEGIN:VEVENT">>,
                   <<"SUMMARY:", "o", "p", "e", "n">>,
                   <<"DTSTART", ":">> \o D20261103 >>]

\* Too short to be a calendar.
ShortBody == [length |-> 12, lines |-> << <<"BEGIN:VEVENT">>, <<"END:VEVENT">> >>]

\* An error page instead of a calendar.
HtmlBody == [length |-> 180, lines |-> << <<"<", "h", "t", "m", "l", ">">> >>]

Bodies == {FeedA, FeedB, ShortBody, HtmlBody}

\* icsData.includes(marker)
BodyIncludes(icsData, marker) ==
    \E i \in 1..Len(icsData.lines) : Includes(icsData.lines[i], marker)

(***************************************************************************)
(* fetchCalendarWithFallback                                               *)
(*                                                                         *)
(* One run of the function is a record: the strategy being attempted, the  *)
(* await it is suspended at ("fetch": the response is awaited and the      *)
(* abort timer is armed; "text": the body is awaited, the timer cleared),  *)
(* or the way it ended ("resolved" with body, "rejected" with lastError).  *)
(* timer is <<the time left before the abort>> while the timer is armed,   *)
(* <<>> otherwise.  tried lists the timeouts of the strategies started so  *)
(* far.  An error carries the strategy that raised it.                     *)
(***************************************************************************)
Strategies ==
    << [timeout |-> 3,  description |-> "Quick fetch"],
       [timeout |-> 8,  description |-> "Standard fetch"],
       [timeout |-> 20, description |-> "Extended fetch"] >>

NoFetch ==
    [phase |-> "none", strategy |-> 0, timer |-> <<>>,
     lastError |-> <<>>, tried |-> <<>>, body |-> <<>>]

\* The head of one loop iteration, up to `await fetch(...)`.
StartStrategy(f, k) ==
    [f EXCEPT !.phase = "fetch", !.strategy = k,
              !.timer = <<Strategies[k].timeout>>,
              !.tried = Append(@, Strategies[k].timeout)]

\* The call: lastError = null and the first iteration.
BeginFetch == StartStrategy(NoFetch, 1)

\* The catch block giving up on the first error that is not a timeout.
CatchGivingUp(f, name, message) ==
    LET error == [name |-> name, message |-> message, strategy |-> f.strategy]
        g     == [f EXCEPT !.lastError = <<error>>, !.timer = <<>>]
    IN  IF f.strategy < Len(Strategies) /\ name = "AbortError"
        THEN StartStrategy(g, f.strategy + 1)
        ELSE [g EXCEPT !.phase = "rejected"]

\* The catch block keeping the first error instead of the last.
CatchFirstError(f, name, message) ==
    LET error == [name |-> name, message |-> message, strategy |-> f.strategy]
        g     == [f EXCEPT !.lastError = IF @ = <<>> THEN <<error>> ELSE @,
                           !.timer = <<>>]
    IN  IF f.strategy < Len(Strategies)
        THEN StartStrategy(g, f.strategy + 1)
        ELSE [g EXCEPT !.phase = "rejected"]

\* The catch block, then the next iteration, or the throw after the loop.
Catch(f, name, message) ==
    LET error == [name |-> name, message |-> message, strategy |-> f.strategy]
        g     == [f EXCEPT !.lastError = <<error>>, !.timer = <<>>]
    IN  IF f.strategy < Len(Strategies)
        THEN StartStrategy(g, f.strategy + 1)
        ELSE [g EXCEPT !.phase = "rejected"]

\* clearTimeout(timeoutId), then if (!response.ok) throw
Respond(f, ok) ==
    IF ok THEN [f EXCEPT !.phase = "text", !.timer = <<>>]
    ELSE Catch(f, "Error", "HTTP 503")

\* Checks that look at the length of the body only.
ValidateLengthOnly(f, icsData) ==
    IF icsData.length < 50
    THEN Catch(f, "Error", "Response too short, likely not a calendar file")
    ELSE [f EXCEPT !.phase = "resolved", !.body = <<icsData>>]

\* The checks of the body, then `return icsData`.
Validate(f, icsData) ==
    IF icsData.length < 50
    THEN Catch(f, "Error", "Response too short, likely not a calendar file")
    ELSE IF ~BodyIncludes(icsData, "BEGIN:VCALENDAR") /\ ~BodyIncludes(icsData, "BEGIN:VEVENT")
    THEN Catch(f, "Error", "Invalid calendar format - missing VCALENDAR/VEVENT")
    ELSE [f EXCEPT !.phase = "resolved", !.body = <<icsData>>]

(***************************************************************************)
(* State                                                                   *)
(***************************************************************************)
\* Handler invocations that may await a fetch at once.
NReq == 2
\* backgroundRefresh invocations that may be in progress at once.
NBg == 2
\* How many times the clock advances.
MaxTicks == 3

Reqs == 1..NReq
Bgs == 1..NBg
ReqTask(r) == <<"req", r>>
BgTask(b) == <<"bg", b>>
Tasks == {ReqTask(r) : r \in Reqs} \cup {BgTask(b) : b \in Bgs}

\* The process starts on 2026-11-01 at 23:50:00.
StartTime == getTime(NewDate(2026, 10, 1, 23, 50, 0))

ttl == 15 * 60
maxStaleAge == 24 * 60 * 60

\* The steps of the clock between requests: one freshness window, the rest
\* of the stale window.
Deltas == {ttl, maxStaleAge - ttl}

\* The steps of the clock within a fetch attempt.
FetchDeltas == {5, 20}

\* req.query
Queries ==
    { [test |-> TRUE,  keyword |-> <<>>, limit |-> <<>>],
      [test |-> FALSE, keyword |-> <<>>, limit |-> <<>>],
      [test |-> FALSE, keyword |-> << <<" ", "M", "A">> >>, limit |-> << <<"1">> >>] }

\* The bodies the upstream sends with status 200 in Spec; in SpecFetch it
\* sends all of Bodies.
Feeds == {FeedA, FeedB}

\* The days the clock can reach.
Days == {StartOfDay(StartTime) + k * SecondsPerDay : k \in 0..(MaxTicks + 1)}

\* parseEvents, computed once for every body and day.
ParseTable == [icsData \in Bodies |-> [today \in Days |-> parseEvents(icsData, today)]]

\* parseCalendarData(icsData) run at the instant now.
parseCalendarData(icsData, now) == ParseTable[icsData][StartOfDay(now)]

VARIABLES
    calendarCache,  \* the module-level cache object
    clock,          \* Date.now()
    ticks,          \* how many times the clock has advanced
    CALENDAR_URL,   \* whether process.env.CALENDAR_URL is set
    req,            \* req[r]: an invocation of the handler that awaits its fetch
    bg,             \* bg[b]: whether invocation b of backgroundRefresh is in progress
    fetch,          \* fetch[t]: the run of fetchCalendarWithFallback that t awaits
    output,         \* what the process has just emitted: a response, or the
                    \* last log line of a background refresh
    parser,         \* a call of parseCalendarData followed line by line
    pipeline        \* a run of the handler's pipeline followed stage by stage

vars == <<calendarCache, clock, ticks, CALENDAR_URL, req, bg, fetch, output,
          parser, pipeline>>

IdleReq == [pc |-> "idle"]
NoOutput == [kind |-> "none"]

\* No call is being followed: in Spec and SpecFetch parseCalendarData and the
\* pipeline run inside the steps of the handler.
NoParser == [phase |-> "none"]
NoPipeline == [stage |-> "none"]

InitialCache ==
    [data |-> {}, timestamp |-> 0, lastSuccessfulFetch |-> 0,
     ttl |-> ttl, maxStaleAge |-> maxStaleAge, fetchInProgress |-> FALSE]

Init ==
    /\ calendarCache = InitialCache
    /\ clock = StartTime
    /\ ticks = 0
    /\ CALENDAR_URL \in BOOLEAN
    /\ req = [r \in Reqs |-> IdleReq]
    /\ bg = [b \in Bgs |-> "idle"]
    /\ fetch = [t \in Tasks |-> NoFetch]
    /\ output = NoOutput
    /\ parser = NoParser
    /\ pipeline = NoPipeline

\* calendarCache.data, when it is not null
Data == CHOOSE events \in calendarCache.data : TRUE

\* The freshness test with the comparison turned round.
IsFreshTurned(now) ==
    calendarCache.data # {} /\ (now - calendarCache.timestamp) > calendarCache.ttl

\* calendarCache.data && (now - calendarCache.timestamp) < calendarCache.ttl
IsFresh(now) ==
    calendarCache.data # {} /\ (now - calendarCache.timestamp) < calendarCache.ttl

\* calendarCache.data && (now - calendarCache.timestamp) < calendarCache.maxStaleAge
IsUsable(now) ==
    calendarCache.data # {} /\ (now - calendarCache.timestamp) < calendarCache.maxStaleAge

\* A promise continuation is pending: the run of some task has just settled.
Settled(t) == fetch[t].phase \in {"resolved", "rejected"}

\* The event loop takes the next request, network event or timer only when
\* no promise continuation is pending and the last output has been passed on.
Quiet == output = NoOutput /\ \A t \in Tasks : ~Settled(t)

\* An invocation takes the first slot that holds no running one.
FreeReq(r) ==
    /\ req[r].pc = "idle"
    /\ \A q \in Reqs : q < r => req[q].pc # "idle"

FreeBg(b) ==
    /\ bg[b] = "idle"
    /\ \A c \in Bgs : c < b => bg[c] # "idle"

\* The cache object after the pipeline has run on the array `events`: the
\* in-place sort reaches the cache when `events` is the array the cache holds.
AfterAnswer(cache, events, query) ==
    IF cache.data = {events}
    THEN [cache EXCEPT !.data = {AfterPipeline(events, query)}]
    ELSE cache

\* The success payload (status 200) built at the end of the handler from the
\* array `events`, read against the cache object `cache` of that moment.
SuccessResponse(events, query, dataSource, now, cache) ==
    [kind         |-> "response",
     now          |-> now,
     query        |-> query,
     status       |-> 200,
     success      |-> TRUE,
     count        |-> Len(Filtered(events, query)),
     dataSource   |-> dataSource,
     isStale      |-> (now - cache.timestamp) > cache.ttl,
     lastSuccessful |-> cache.lastSuccessfulFetch,
     events       |-> FormattedEvents(events, query)]

ErrorResponse(status, error, query, now) ==
    [kind |-> "response", now |-> now, query |-> query, status |-> status,
     success |-> FALSE, error |-> error]

\* The 503 of the handler: the fetch failed and there is no cache at all.
UnavailableResponse(query, now) ==
    ErrorResponse(503, "Calendar service temporarily unavailable", query, now)

\* The 500 of the handler's outer catch block.
InternalErrorResponse(query, now) ==
    ErrorResponse(500, "Internal server error", query, now)

\* The payload of the test endpoint.
TestResponse(query, now, cache) ==
    [kind |-> "response", now |-> now, query |-> query, status |-> 200,
     success |-> TRUE, message |-> "Function is working",
     env |-> CALENDAR_URL,
     hasData |-> cache.data # {},
     eventCount |-> IF cache.data # {} THEN Len(Data) ELSE 0,
     fetchInProgress |-> cache.fetchInProgress]

(***************************************************************************)
(* The exported handler, up to its first await                             *)
(***************************************************************************)
\* req.query.test === 'true'
HandleTest(query) ==
    /\ Quiet
    /\ query.test
    /\ output' = TestResponse(query, clock, calendarCache)
    /\ UNCHANGED <<calendarCache, clock, ticks, CALENDAR_URL, parser, pipeline, req, bg, fetch>>

\* if (!url)
HandleNoUrl(query) ==
    /\ Quiet
    /\ ~query.test
    /\ ~CALENDAR_URL
    /\ output' = ErrorResponse(400, "CALENDAR_URL environment variable is not set",
                               query, clock)
    /\ UNCHANGED <<calendarCache, clock, ticks, CALENDAR_URL, parser, pipeline, req, bg, fetch>>

\* Strategy 1: the cache is fresh.
ServeFresh(query) ==
    /\ Quiet
    /\ ~query.test
    /\ CALENDAR_URL
    /\ IsFresh(clock)
    /\ output' = SuccessResponse(Data, query, "fresh_cache", clock, calendarCache)
    /\ calendarCache' = AfterAnswer(calendarCache, Data, query)
    /\ UNCHANGED <<clock, ticks, CALENDAR_URL, parser, pipeline, req, bg, fetch>>

\* Strategy 2 with the refresh awaited: the handler starts the refresh and
\* answers nothing until it settles.
ServeStaleAwaiting(query) ==
    /\ Quiet
    /\ ~query.test
    /\ CALENDAR_URL
    /\ ~IsFresh(clock)
    /\ IsUsable(clock)
    /\ ~calendarCache.fetchInProgress
    /\ \E b \in Bgs :
          /\ FreeBg(b)
          /\ bg' = [bg EXCEPT ![b] = "running"]
          /\ fetch' = [fetch EXCEPT ![BgTask(b)] = BeginFetch]
    /\ calendarCache' = [calendarCache EXCEPT !.fetchInProgress = TRUE]
    /\ UNCHANGED <<clock, ticks, CALENDAR_URL, parser, pipeline, req, output>>

\* Strategy 2: the cache is stale; backgroundRefresh(url) runs up to its
\* first await inside this call, then the handler goes on to answer.
ServeStale(query) ==
    /\ Quiet
    /\ ~query.test
    /\ CALENDAR_URL
    /\ ~IsFresh(clock)
    /\ IsUsable(clock)
    /\ output' = SuccessResponse(Data, query, "stale_cache", clock, calendarCache)
    /\ IF calendarCache.fetchInProgress
       THEN /\ calendarCache' = AfterAnswer(calendarCache, Data, query)
            /\ UNCHANGED <<bg, fetch>>
       ELSE \E b \in Bgs :
            /\ FreeBg(b)
            /\ bg' = [bg EXCEPT ![b] = "running"]
            /\ fetch' = [fetch EXCEPT ![BgTask(b)] = BeginFetch]
            /\ calendarCache' =
                   AfterAnswer([calendarCache EXCEPT !.fetchInProgress = TRUE], Data, query)
    /\ UNCHANGED <<clock, ticks, CALENDAR_URL, parser, pipeline, req>>

\* Strategy 3: no usable cache; the handler awaits fetchCalendarWithFallback.
StartFetch(r, query) ==
    /\ Quiet
    /\ FreeReq(r)
    /\ ~query.test
    /\ CALENDAR_URL
    /\ ~IsFresh(clock)
    /\ ~IsUsable(clock)
    /\ req' = [req EXCEPT ![r] = [pc |-> "fetching", now |-> clock, query |-> query]]
    /\ fetch' = [fetch EXCEPT ![ReqTask(r)] = BeginFetch]
    /\ UNCHANGED <<calendarCache, clock, ticks, CALENDAR_URL, parser, pipeline, bg, output>>

(***************************************************************************)
(* The steps of fetchCalendarWithFallback                                  *)
(***************************************************************************)
TimerArmed(t) == fetch[t].timer # <<>>

TimerExpired(t) == TimerArmed(t) /\ fetch[t].timer[1] = 0

\* fetch() resolves with a response before the timer fires.
ResponseArrives(t, ok) ==
    /\ Quiet
    /\ fetch[t].phase = "fetch"
    /\ ~TimerExpired(t)
    /\ fetch' = [fetch EXCEPT ![t] = Respond(@, ok)]
    /\ UNCHANGED <<calendarCache, clock, ticks, CALENDAR_URL, parser, pipeline, req, bg, output>>

\* fetch() rejects: the connection fails.
ConnectionFails(t) ==
    /\ Quiet
    /\ fetch[t].phase = "fetch"
    /\ fetch' = [fetch EXCEPT ![t] = Catch(@, "FetchError", "request failed")]
    /\ UNCHANGED <<calendarCache, clock, ticks, CALENDAR_URL, parser, pipeline, req, bg, output>>

\* The timer fires: controller.abort() rejects fetch() with an AbortError.
TimerFires(t) ==
    /\ Quiet
    /\ fetch[t].phase = "fetch"
    /\ TimerExpired(t)
    /\ fetch' = [fetch EXCEPT ![t] = Catch(@, "AbortError", "aborted")]
    /\ UNCHANGED <<calendarCache, clock, ticks, CALENDAR_URL, parser, pipeline, req, bg, output>>

\* response.text() resolves with the body.
BodyArrives(t, icsData) ==
    /\ Quiet
    /\ fetch[t].phase = "text"
    /\ fetch' = [fetch EXCEPT ![t] = Validate(@, icsData)]
    /\ UNCHANGED <<calendarCache, clock, ticks, CALENDAR_URL, parser, pipeline, req, bg, output>>

(***************************************************************************)
(* The handler after `await fetchCalendarWithFallback(url)`                *)
(***************************************************************************)
\* An install that keeps the events of the entry it finds.
InstallKeepingData(cache, events, now) ==
    [cache EXCEPT !.data = IF @ = {} THEN {events} ELSE @, !.timestamp = now,
                  !.lastSuccessfulFetch = now, !.fetchInProgress = FALSE]

\* An install that leaves lastSuccessfulFetch as it finds it.
InstallWithoutLastSuccessful(cache, events, now) ==
    [cache EXCEPT !.data = {events}, !.timestamp = now, !.fetchInProgress = FALSE]

\* An install that gives way to an entry with a later timestamp.
InstallUnlessNewer(cache, events, now) ==
    IF cache.data # {} /\ cache.timestamp > now
    THEN cache
    ELSE [cache EXCEPT !.data = {events}, !.timestamp = now,
                       !.lastSuccessfulFetch = now, !.fetchInProgress = FALSE]

\* An install that writes the events and leaves the timestamp of the entry
\* it finds.
InstallDataOnly(cache, events, now) ==
    [cache EXCEPT !.data = {events}, !.lastSuccessfulFetch = now,
                  !.fetchInProgress = FALSE]

\* calendarCache = {...calendarCache, data, timestamp: now, ...}
Install(cache, events, now) ==
    [cache EXCEPT !.data = {events}, !.timestamp = now,
                  !.lastSuccessfulFetch = now, !.fetchInProgress = FALSE]

\* The fetch resolved: parse, install, answer from the parsed events.
FetchSucceeds(r) ==
    /\ output = NoOutput
    /\ req[r].pc = "fetching"
    /\ fetch[ReqTask(r)].phase = "resolved"
    /\ LET parsedEvents == parseCalendarData(fetch[ReqTask(r)].body[1], clock)
           installed    == Install(calendarCache, parsedEvents, req[r].now)
       IN  /\ output' = SuccessResponse(parsedEvents, req[r].query, "fresh_fetch",
                                        req[r].now, installed)
           /\ calendarCache' = AfterAnswer(installed, parsedEvents, req[r].query)
    /\ req' = [req EXCEPT ![r] = IdleReq]
    /\ fetch' = [fetch EXCEPT ![ReqTask(r)] = NoFetch]
    /\ UNCHANGED <<clock, ticks, CALENDAR_URL, parser, pipeline, bg>>

\* The fetch rejected and the handler answers 503 whatever the cache holds.
FetchFailsUnavailable(r) ==
    /\ output = NoOutput
    /\ req[r].pc = "fetching"
    /\ fetch[ReqTask(r)].phase = "rejected"
    /\ output' = UnavailableResponse(req[r].query, req[r].now)
    /\ req' = [req EXCEPT ![r] = IdleReq]
    /\ fetch' = [fetch EXCEPT ![ReqTask(r)] = NoFetch]
    /\ UNCHANGED <<calendarCache, clock, ticks, CALENDAR_URL, parser, pipeline, bg>>

\* The fetch rejected and the error reaches the outer catch block: the
\* handler answers 500.
FetchFailsInternal(r) ==
    /\ output = NoOutput
    /\ req[r].pc = "fetching"
    /\ fetch[ReqTask(r)].phase = "rejected"
    /\ output' = InternalErrorResponse(req[r].query, req[r].now)
    /\ req' = [req EXCEPT ![r] = IdleReq]
    /\ fetch' = [fetch EXCEPT ![ReqTask(r)] = NoFetch]
    /\ UNCHANGED <<calendarCache, clock, ticks, CALENDAR_URL, parser, pipeline, bg>>

\* The fetch rejected: Strategy 4, the cache of any age, or the 503.
FetchFails(r) ==
    /\ output = NoOutput
    /\ req[r].pc = "fetching"
    /\ fetch[ReqTask(r)].phase = "rejected"
    /\ IF calendarCache.data # {}
       THEN /\ output' = SuccessResponse(Data, req[r].query, "emergency_cache",
                                         req[r].now, calendarCache)
            /\ calendarCache' = AfterAnswer(calendarCache, Data, req[r].query)
       ELSE /\ output' = UnavailableResponse(req[r].query, req[r].now)
            /\ UNCHANGED calendarCache
    /\ req' = [req EXCEPT ![r] = IdleReq]
    /\ fetch' = [fetch EXCEPT ![ReqTask(r)] = NoFetch]
    /\ UNCHANGED <<clock, ticks, CALENDAR_URL, parser, pipeline, bg>>

(***************************************************************************)
(* backgroundRefresh after `await fetchCalendarWithFallback(url)`          *)
(***************************************************************************)
\* A catch block that also forgets when the entry was fetched.
RefreshCatchClearing(cache) == [cache EXCEPT !.fetchInProgress = FALSE, !.timestamp = 0]

\* A catch block that also drops the events of the entry.
RefreshCatchDroppingData(cache) == [cache EXCEPT !.fetchInProgress = FALSE, !.data = {}]

\* A catch block that leaves the flag as it finds it.
RefreshCatchKeepingFlag(cache) == cache

\* The catch block: calendarCache.fetchInProgress = false
RefreshCatch(cache) == [cache EXCEPT !.fetchInProgress = FALSE]

RefreshLog(b, message) == [kind |-> "log", refresh |-> b, message |-> message]

RefreshSucceeds(b) ==
    /\ output = NoOutput
    /\ bg[b] = "running"
    /\ fetch[BgTask(b)].phase = "resolved"
    /\ calendarCache' =
           Install(calendarCache, parseCalendarData(fetch[BgTask(b)].body[1], clock), clock)
    /\ output' = RefreshLog(b, "Background refresh successful")
    /\ bg' = [bg EXCEPT ![b] = "idle"]
    /\ fetch' = [fetch EXCEPT ![BgTask(b)] = NoFetch]
    /\ UNCHANGED <<clock, ticks, CALENDAR_URL, parser, pipeline, req>>

RefreshFails(b) ==
    /\ output = NoOutput
    /\ bg[b] = "running"
    /\ fetch[BgTask(b)].phase = "rejected"
    /\ calendarCache' = RefreshCatch(calendarCache)
    /\ output' = RefreshLog(b, "Background refresh failed")
    /\ bg' = [bg EXCEPT ![b] = "idle"]
    /\ fetch' = [fetch EXCEPT ![BgTask(b)] = NoFetch]
    /\ UNCHANGED <<clock, ticks, CALENDAR_URL, parser, pipeline, req>>

(***************************************************************************)
(* The environment: the output is passed on, time passes                   *)
(***************************************************************************)
Flush ==
    /\ output # NoOutput
    /\ output' = NoOutput
    /\ UNCHANGED <<calendarCache, clock, ticks, CALENDAR_URL, parser, pipeline, req, bg, fetch>>

\* d seconds pass: every armed timer runs down by d.
Advance(d) ==
    /\ Quiet
    /\ ticks < MaxTicks
    /\ clock' = clock + d
    /\ ticks' = ticks + 1
    /\ fetch' = [t \in Tasks |->
                    IF TimerArmed(t)
                    THEN [fetch[t] EXCEPT !.timer =
                             <<IF @[1] > d THEN @[1] - d ELSE 0>>]
                    ELSE fetch[t]]
    /\ UNCHANGED <<calendarCache, CALENDAR_URL, parser, pipeline, req, bg, output>>

(***************************************************************************)
(* Spec: requests, refreshes and the clock.  A run of                      *)
(* fetchCalendarWithFallback changes nothing but its own record until it   *)
(* settles, so here the upstream's answers to the attempts of one run are  *)
(* applied in one step; SpecFetch takes the same steps one at a time.      *)
(***************************************************************************)
\* What the upstream does to one attempt: it lets the timer fire, answers
\* with HTTP 503, or answers 200 with a body.
Answers == {[kind |-> "abort"], [kind |-> "status"]} \cup [kind : {"body"}, icsData : Feeds]

CanAttempt(f, answer) ==
    /\ f.phase = "fetch"
    /\ (answer.kind = "abort") = (f.timer = <<0>>)

Attempt(f, answer) ==
    CASE answer.kind = "abort"  -> Catch(f, "AbortError", "aborted")
      [] answer.kind = "status" -> Respond(f, FALSE)
      [] answer.kind = "body"   -> Validate(Respond(f, TRUE), answer.icsData)

RECURSIVE CanRun(_, _)
CanRun(f, script) ==
    IF Len(script) = 0 THEN TRUE
    ELSE /\ CanAttempt(f, Head(script))
         /\ CanRun(Attempt(f, Head(script)), Tail(script))

RECURSIVE Run(_, _)
Run(f, script) ==
    IF Len(script) = 0 THEN f ELSE Run(Attempt(f, Head(script)), Tail(script))

Scripts == UNION {[1..n -> Answers] : n \in 1..Len(Strategies)}

\* The ways the run f can settle.
Outcomes(f) ==
    {Run(f, script) : script \in
        {s \in Scripts : CanRun(f, s) /\ Run(f, s).phase \in {"resolved", "rejected"}}}

\* A run in progress in Spec: it awaits the answer to its first attempt,
\* the timer running or run down.  It can stay in progress for any length
\* of time: clearTimeout(timeoutId) precedes `await response.text()`, so no
\* timer bounds the wait for a body.
InFlight == {BeginFetch, [BeginFetch EXCEPT !.timer = <<0>>]}

\* Outcomes, computed once.
OutcomeTable == [f \in InFlight |-> Outcomes(f)]

\* The run of task t meets the upstream's answers and settles as `settled`.
Settle(t, settled) ==
    /\ Quiet
    /\ fetch[t] \in InFlight
    /\ settled \in OutcomeTable[fetch[t]]
    /\ fetch' = [fetch EXCEPT ![t] = settled]
    /\ UNCHANGED <<calendarCache, clock, ticks, CALENDAR_URL, parser, pipeline, req, bg, output>>

AllOutcomes == UNION {OutcomeTable[f] : f \in InFlight}

Next ==
    \/ \E query \in Queries : HandleTest(query)
    \/ \E query \in Queries : HandleNoUrl(query)
    \/ \E query \in Queries : ServeFresh(query)
    \/ \E query \in Queries : ServeStale(query)
    \/ \E r \in Reqs, query \in Queries : StartFetch(r, query)
    \/ \E t \in Tasks, settled \in AllOutcomes : Settle(t, settled)
    \/ \E r \in Reqs : FetchSucceeds(r)
    \/ \E r \in Reqs : FetchFails(r)
    \/ \E b \in Bgs : RefreshSucceeds(b)
    \/ \E b \in Bgs : RefreshFails(b)
    \/ \E d \in Deltas : Advance(d)
    \/ Flush

Spec == Init /\ [][Next]_vars

(***************************************************************************)
(* SpecFetch: one run of fetchCalendarWithFallback, awaited by a handler   *)
(* that found the cache empty, under every behaviour of the upstream.      *)
(***************************************************************************)
InitFetch ==
    /\ calendarCache = InitialCache
    /\ clock = StartTime
    /\ ticks = 0
    /\ CALENDAR_URL = TRUE
    /\ \E query \in Queries :
          /\ ~query.test
          /\ req = [r \in Reqs |->
                       IF r = 1 THEN [pc |-> "fetching", now |-> StartTime, query |-> query]
                       ELSE IdleReq]
    /\ bg = [b \in Bgs |-> "idle"]
    /\ fetch = [t \in Tasks |-> IF t = ReqTask(1) THEN BeginFetch ELSE NoFetch]
    /\ output = NoOutput
    /\ parser = NoParser
    /\ pipeline = NoPipeline

NextFetch ==
    \/ \E t \in Tasks, ok \in BOOLEAN : ResponseArrives(t, ok)
    \/ \E t \in Tasks : ConnectionFails(t)
    \/ \E t \in Tasks : TimerFires(t)
    \/ \E t \in Tasks, icsData \in Bodies : BodyArrives(t, icsData)
    \/ \E r \in Reqs : FetchSucceeds(r)
    \/ \E r \in Reqs : FetchFails(r)
    \/ \E d \in FetchDeltas : Advance(d)
    \/ Flush

SpecFetch == InitFetch /\ [][NextFetch]_vars

(***************************************************************************)
(* SpecParse: one call of parseCalendarData, followed line by line, on     *)
(* every document made of at most MaxChunks of the pieces below.           *)
(***************************************************************************)
D20261031 == <<"2", "0", "2", "6", "1", "0", "3", "1">>

\* A well-formed block, and a second one with its lines in another order,
\* an end and surrounding blanks.
BlockMath ==
    << <<"BEGIN:VEVENT">>,
       <<"SUMMARY:", "M", "a", "t", "h">>,
       <<"DTSTART", ":">> \o D20261103 \o T0900 \o <<"Z">>,
       <<"END:VEVENT">> >>

BlockLab ==
    << <<" ", "BEGIN:VEVENT", " ">>,
       <<"DTSTART", ";", "VALUE=DATE", ":">> \o D20261102,
       <<"DTEND", ";", "VALUE=DATE", ":">> \o D20261103,
       <<" ", "SUMMARY:", "L", "a", "b">>,
       <<"LOCATION:", "R", "1">>,
       <<"END:VEVENT">> >>

\* Blocks without a summary, with an empty summary, without a start, with a
\* start too short to parse.
BlockNoSummary ==
    << <<"BEGIN:VEVENT">>, <<"DTSTART", ":">> \o D20261103, <<"END:VEVENT">> >>

BlockEmptySummary ==
    << <<"BEGIN:VEVENT">>, <<"SUMMARY:", "x">>, <<"SUMMARY:">>,
       <<"DTSTART", ":">> \o D20261103, <<"END:VEVENT">> >>

BlockNoStart ==
    << <<"BEGIN:VEVENT">>, <<"SUMMARY:", "n">>, <<"END:VEVENT">> >>

BlockBadStart ==
    << <<"BEGIN:VEVENT">>, <<"SUMMARY:", "s">>,
       <<"DTSTART", ":", "2", "0", "2", "6">>, <<"END:VEVENT">> >>

\* A block whose start has letters for its month: an Invalid Date.
BlockInvalidStart ==
    << <<"BEGIN:VEVENT">>, <<"SUMMARY:", "i">>,
       <<"DTSTART", ":", "2", "0", "2", "6", "a", "b", "0", "2">>, <<"END:VEVENT">> >>

\* Blocks whose start parses: one of the year 2020, one of the day before
\* the call, one that a second, unparsable DTSTART line follows.
BlockOldYear ==
    << <<"BEGIN:VEVENT">>, <<"SUMMARY:", "o">>,
       <<"DTSTART", ":">> \o D20201103, <<"END:VEVENT">> >>

BlockPast ==
    << <<"BEGIN:VEVENT">>, <<"SUMMARY:", "p">>,
       <<"DTSTART", ":">> \o D20261031 \o T1000, <<"END:VEVENT">> >>

BlockTwoStarts ==
    << <<"BEGIN:VEVENT">>, <<"SUMMARY:", "t">>,
       <<"DTSTART", ":">> \o D20261102 \o T1000,
       <<"DTSTART", ":", "T">>, <<"END:VEVENT">> >>

\* A block whose end is of a year the parser refuses.
BlockRefusedEnd ==
    << <<"BEGIN:VEVENT">>, <<"SUMMARY:", "e">>,
       <<"DTSTART", ":">> \o D20261102 \o T0900,
       <<"DTEND", ":">> \o D20201103 \o T1000, <<"END:VEVENT">> >>

\* A block left open, and property lines with an END:VEVENT outside a block.
BlockOpen ==
    << <<"BEGIN:VEVENT">>, <<"SUMMARY:", "g">>,
       <<"DTSTART", ":">> \o D20261103,
       <<"DTEND", ":">> \o D20261103 \o T1000 >>

StrayLines ==
    << <<"SUMMARY:", "y">>, <<"DTSTART", ":">> \o D20261103, <<"END:VEVENT">> >>

Chunks ==
    { BlockMath, BlockLab, BlockNoSummary, BlockEmptySummary, BlockNoStart,
      BlockBadStart, BlockInvalidStart, BlockOldYear, BlockPast, BlockTwoStarts, BlockRefusedEnd,
      BlockOpen, StrayLines }

\* How many pieces a document has at most.
MaxChunks == 3

RECURSIVE Flatten(_)
Flatten(chunks) == IF chunks = <<>> THEN <<>> ELSE Head(chunks) \o Flatten(Tail(chunks))

\* icsData.split(/\r?\n/) for every document.
Documents == {Flatten(chunks) : chunks \in UNION {[1..n -> Chunks] : n \in 0..MaxChunks}}

InitParse ==
    /\ calendarCache = InitialCache
    /\ clock = StartTime
    /\ ticks = 0
    /\ CALENDAR_URL = TRUE
    /\ req = [r \in Reqs |-> IdleReq]
    /\ bg = [b \in Bgs |-> "idle"]
    /\ fetch = [t \in Tasks |-> NoFetch]
    /\ output = NoOutput
    /\ pipeline = NoPipeline
    /\ \E lines \in Documents :
          parser = [phase |-> "loop", lines |-> lines, i |-> 0,
                    today |-> StartOfDay(clock),
                    st |-> [events |-> <<>>, currentEvent |-> <<>>]]

\* One iteration of `for (let i = 0; i < lines.length; i++)`.
ParseLoop ==
    /\ parser.phase = "loop"
    /\ parser.i < Len(parser.lines)
    /\ parser' = [parser EXCEPT
                     !.st = parseLine(@, parser.lines[parser.i + 1], parser.today),
                     !.i = @ + 1]
    /\ UNCHANGED <<calendarCache, clock, ticks, CALENDAR_URL, req, bg, fetch, output,
                   pipeline>>

\* return events
ParseReturn ==
    /\ parser.phase = "loop"
    /\ parser.i = Len(parser.lines)
    /\ parser' = [parser EXCEPT !.phase = "returned"]
    /\ UNCHANGED <<calendarCache, clock, ticks, CALENDAR_URL, req, bg, fetch, output,
                   pipeline>>

NextParse ==
    \/ ParseLoop
    \/ ParseReturn

SpecParse == InitParse /\ [][NextParse]_vars

(***************************************************************************)
(* SpecPipeline: the pipeline of the handler, followed stage by stage, on  *)
(* every array of at most MaxEvents of the events below and on the         *)
(* queries below; the next request finds the array as the last one left    *)
(* it.  `document` is the array as parseCalendarData returned it, `input`  *)
(* the array as the request found it, `events` the array now, `sorted` the *)
(* array `filtered` as sort() left it.                                     *)
(***************************************************************************)
EvMath ==
    [summary |-> <<"M", "a", "t", "h">>,
     dtstart |-> NewDate(2026, 10, 3, 9, 0, 0),
     dtend   |-> NewDate(2026, 10, 3, 10, 0, 0)]

\* Starts when EvMath starts; no end.
EvAma ==
    [summary |-> <<"A", "m", "a">>,
     dtstart |-> NewDate(2026, 10, 3, 9, 0, 0)]

\* From midnight to midnight.
EvLab ==
    [summary |-> <<"L", "a", "b">>,
     dtstart |-> NewDate(2026, 10, 2, 0, 0, 0),
     dtend   |-> NewDate(2026, 10, 3, 0, 0, 0)]

\* Starts when EvLab starts; ends within the day.
EvAb ==
    [summary |-> <<"a", "b">>,
     dtstart |-> NewDate(2026, 10, 2, 0, 0, 0),
     dtend   |-> NewDate(2026, 10, 2, 10, 30, 0)]

Events == {EvMath, EvAma, EvLab, EvAb}

\* How many events an array has at most.
MaxEvents == 3

EventArrays == UNION {[1..n -> Events] : n \in 0..MaxEvents}

\* req.query of the requests of SpecPipeline.
PipelineQueries ==
    { [test |-> FALSE, keyword |-> <<>>, limit |-> <<>>],
      [test |-> FALSE, keyword |-> << <<" ", "M", "A", " ">> >>, limit |-> <<>>],
      [test |-> FALSE, keyword |-> << <<"b">> >>, limit |-> << <<"1">> >>],
      [test |-> FALSE, keyword |-> << <<" ">> >>, limit |-> << <<"2">> >>],
      [test |-> FALSE, keyword |-> <<>>, limit |-> << <<"1">> >>],
      [test |-> FALSE, keyword |-> <<>>, limit |-> << <<"0">> >>],
      [test |-> FALSE, keyword |-> << <<"z">> >>, limit |-> << <<"a", "b">> >>],
      [test |-> FALSE, keyword |-> <<>>, limit |-> << <<"-", "1">> >>] }

Arrived(document, events, query) ==
    [stage |-> "arrived", document |-> document, input |-> events,
     events |-> events, query |-> query]

InitPipeline ==
    /\ calendarCache = InitialCache
    /\ clock = StartTime
    /\ ticks = 0
    /\ CALENDAR_URL = TRUE
    /\ req = [r \in Reqs |-> IdleReq]
    /\ bg = [b \in Bgs |-> "idle"]
    /\ fetch = [t \in Tasks |-> NoFetch]
    /\ output = NoOutput
    /\ parser = NoParser
    /\ \E document \in EventArrays, query \in PipelineQueries :
          pipeline = Arrived(document, document, query)

\* const keyword = ...; let filtered = events; if (keyword) filtered = events.filter(...)
PipelineFilter ==
    /\ pipeline.stage = "arrived"
    /\ LET keyword == KeywordOf(pipeline.query)
       IN  pipeline' =
             [stage |-> "filtered", document |-> pipeline.document,
              input |-> pipeline.input, events |-> pipeline.events,
              query |-> pipeline.query, keyword |-> keyword,
              filtered |-> KeywordFilter(pipeline.events, keyword),
              aliased |-> ~Truthy(keyword)]
    /\ UNCHANGED <<calendarCache, clock, ticks, CALENDAR_URL, req, bg, fetch, output,
                   parser>>

\* filtered.sort(...): in place, so in `events` too when it is the same array.
PipelineSort ==
    /\ pipeline.stage = "filtered"
    /\ LET sorted == SortByStart(pipeline.filtered)
       IN  pipeline' =
             [stage |-> "sorted", document |-> pipeline.document,
              input |-> pipeline.input,
              events |-> IF pipeline.aliased THEN sorted ELSE pipeline.events,
              query |-> pipeline.query, keyword |-> pipeline.keyword,
              filtered |-> sorted, aliased |-> pipeline.aliased,
              sorted |-> sorted]
    /\ UNCHANGED <<calendarCache, clock, ticks, CALENDAR_URL, req, bg, fetch, output,
                   parser>>

\* const limit = ...; if (filtered.length > limit) filtered = filtered.slice(0, limit)
PipelineLimit ==
    /\ pipeline.stage = "sorted"
    /\ LET limit == LimitOf(pipeline.query)
       IN  pipeline' =
             [stage |-> "limited", document |-> pipeline.document,
              input |-> pipeline.input, events |-> pipeline.events,
              query |-> pipeline.query, keyword |-> pipeline.keyword,
              limit |-> limit, sorted |-> pipeline.sorted,
              filtered |-> Truncate(pipeline.filtered, limit),
              aliased |-> pipeline.aliased /\ ~(Len(pipeline.filtered) > limit)]
    /\ UNCHANGED <<calendarCache, clock, ticks, CALENDAR_URL, req, bg, fetch, output,
                   parser>>

\* const formattedEvents = filtered.map(...); the payload with count and events.
PipelineFormat ==
    /\ pipeline.stage = "limited"
    /\ pipeline' =
          [stage |-> "answered", document |-> pipeline.document,
           input |-> pipeline.input, events |-> pipeline.events,
           query |-> pipeline.query, keyword |-> pipeline.keyword,
           limit |-> pipeline.limit, sorted |-> pipeline.sorted,
           count |-> Len(pipeline.filtered),
           formattedEvents |-> Formatted(pipeline.filtered)]
    /\ UNCHANGED <<calendarCache, clock, ticks, CALENDAR_URL, req, bg, fetch, output,
                   parser>>

\* The next request served from the same array.
PipelineNext(query) ==
    /\ pipeline.stage = "answered"
    /\ pipeline' = Arrived(pipeline.document, pipeline.events, query)
    /\ UNCHANGED <<calendarCache, clock, ticks, CALENDAR_URL, req, bg, fetch, output,
                   parser>>

NextPipeline ==
    \/ PipelineFilter
    \/ PipelineSort
    \/ PipelineLimit
    \/ PipelineFormat
    \/ \E query \in PipelineQueries : PipelineNext(query)

SpecPipeline == InitPipeline /\ [][NextPipeline]_vars

(***************************************************************************)
(* Properties                                                              *)
(***************************************************************************)
\* A step in which the handler is invoked and runs up to its first await or
\* its answer: the event loop is idle before it, no time passes, and no run
\* of fetchCalendarWithFallback that is in progress moves.
HandlerStep ==
    /\ Quiet
    /\ clock' = clock
    /\ \A t \in Tasks : fetch[t].phase # "none" => fetch'[t] = fetch[t]

\* The age of the cache entry at the current instant.
Age == clock - calendarCache.timestamp

HoldsData == calendarCache.data # {}

\* The answer is the success payload built from the array `events`.
AnswersFrom(answer, events, dataSource) ==
    /\ answer.kind = "response"
    /\ answer.status = 200
    /\ ~answer.query.test
    /\ answer.dataSource = dataSource
    /\ answer.events = Formatted(Filtered(events, answer.query))

IsTestAnswer(answer) ==
    answer.kind = "response" /\ answer.query.test /\ answer.status = 200

\* C1: a request that arrives while the cache holds data younger than ttl
\* is answered from the cached events, starts no fetch of any kind, and
\* leaves timestamp, lastSuccessfulFetch and fetchInProgress as they were.
C1_FreshTier ==
    [][(HandlerStep /\ CALENDAR_URL /\ HoldsData /\ Age < calendarCache.ttl)
        => /\ IsTestAnswer(output') \/ AnswersFrom(output', Data, "fresh_cache")
           /\ fetch' = fetch /\ bg' = bg /\ req' = req
           /\ calendarCache'.timestamp = calendarCache.timestamp
           /\ calendarCache'.lastSuccessfulFetch = calendarCache.lastSuccessfulFetch
           /\ calendarCache'.fetchInProgress = calendarCache.fetchInProgress]_vars

\* A fresh entry has answered a request with events.
C1_Witness ==
    /\ output.kind = "response"
    /\ output.status = 200
    /\ ~output.query.test
    /\ output.dataSource = "fresh_cache"
    /\ Len(output.events) > 0
    /\ output.now - calendarCache.timestamp < calendarCache.ttl

\* The tiers of the cache entry at the current instant.
Stale == HoldsData /\ Age >= calendarCache.ttl /\ Age < calendarCache.maxStaleAge

Expired == ~HoldsData \/ Age >= calendarCache.maxStaleAge

\* Some invocation of backgroundRefresh has started and not finished.
RefreshInFlight == \E b \in Bgs : bg[b] = "running"

\* This step starts invocation b of backgroundRefresh.
Started(b) ==
    /\ bg[b] = "idle"
    /\ bg'[b] = "running"
    /\ fetch'[BgTask(b)] = BeginFetch

\* The arrays a and b hold the same events, each as many times.
Count(s, e) == Cardinality({i \in DOMAIN s : s[i] = e})

SameEvents(a, b) ==
    /\ Len(a) = Len(b)
    /\ \A i \in DOMAIN a : Count(a, a[i]) = Count(b, a[i])

\* C2: a request that arrives while the cache holds data of age in
\* [ttl, maxStaleAge) is answered from the cached events; if no background
\* refresh is in flight it starts exactly one, and if one is still in flight
\* it starts no further fetch.
C2_StaleTier ==
    [][(HandlerStep /\ CALENDAR_URL /\ Stale /\ ~IsTestAnswer(output'))
        => /\ AnswersFrom(output', Data, "stale_cache")
           /\ req' = req
           /\ IF RefreshInFlight
              THEN fetch' = fetch /\ bg' = bg
              ELSE Cardinality({b \in Bgs : Started(b)}) = 1]_vars

\* C3: a request that arrives when the cache holds no data, or data of age
\* maxStaleAge or more, starts a fetch and awaits it; when the fetch resolves,
\* the cache entry is replaced by the events parsed from its body, stamped
\* with the instant the request arrived, and the request is answered from
\* those events as "fresh_fetch".
C3_FreshFetch ==
    [][/\ (HandlerStep /\ CALENDAR_URL /\ Expired /\ ~IsTestAnswer(output'))
          => \E r \in Reqs :
                /\ req[r].pc = "idle"
                /\ req'[r].pc = "fetching"
                /\ req'[r].now = clock
                /\ fetch'[ReqTask(r)] = BeginFetch
                /\ output' = output
                /\ calendarCache' = calendarCache
       /\ \A r \in Reqs :
            (/\ req[r].pc = "fetching"
             /\ fetch[ReqTask(r)].phase = "resolved"
             /\ req'[r].pc = "idle")
            => LET parsedEvents == parseCalendarData(fetch[ReqTask(r)].body[1], clock)
               IN  /\ AnswersFrom(output', parsedEvents, "fresh_fetch")
                   /\ output'.query = req[r].query
                   /\ calendarCache'.data # {}
                   /\ SameEvents(Data', parsedEvents)
                   /\ calendarCache'.timestamp = req[r].now]_vars

\* A request that arrived a day or more after the process started has been
\* answered from the events of its own fetch, which the cache now holds.
C3_Witness ==
    /\ output.kind = "response"
    /\ output.status = 200
    /\ ~output.query.test
    /\ output.dataSource = "fresh_fetch"
    /\ output.now - StartTime >= maxStaleAge
    /\ Len(output.events) > 0
    /\ calendarCache.timestamp = output.now

\* C4: when the fetch a request awaits is rejected, every strategy having
\* been tried, and the cache holds data, the request is answered with status
\* 200 from that data as "emergency_cache"; the rejection itself changes
\* nothing in the cache, and after the answer the cache holds the same events
\* under the same timestamp.
C4_Emergency ==
    [][/\ \A r \in Reqs :
            (/\ req[r].pc = "fetching"
             /\ fetch[ReqTask(r)].phase = "rejected"
             /\ req'[r].pc = "idle"
             /\ HoldsData)
            => /\ Len(fetch[ReqTask(r)].tried) = Len(Strategies)
               /\ AnswersFrom(output', Data, "emergency_cache")
               /\ output'.success
               /\ output'.query = req[r].query
               /\ calendarCache'.data # {}
               /\ SameEvents(Data', Data)
               /\ calendarCache'.timestamp = calendarCache.timestamp
       /\ \A t \in Tasks :
            (fetch[t].phase # "rejected" /\ fetch'[t].phase = "rejected")
            => calendarCache' = calendarCache]_vars

\* A request whose fetch failed has been answered from an entry a day old
\* or older.
C4_Witness ==
    /\ output.kind = "response"
    /\ output.status = 200
    /\ ~output.query.test
    /\ output.dataSource = "emergency_cache"
    /\ Len(output.events) > 0
    /\ output.now - calendarCache.timestamp >= calendarCache.maxStaleAge

\* The fetch request r awaits has failed on every strategy.
Exhausted(r) ==
    /\ req[r].pc = "fetching"
    /\ fetch[ReqTask(r)].phase = "rejected"
    /\ Len(fetch[ReqTask(r)].tried) = Len(Strategies)

\* C5: a response has status 503 exactly when it answers a request whose
\* fetch failed on every strategy while the cache holds no data; it is the
\* "temporarily unavailable" payload, which differs from the internal error
\* in status and in error text, and the cache is as empty after it as before.
C5_Unavailable ==
    [][(output' # output /\ output'.kind = "response")
        => /\ (output'.status = 503)
                <=> (\E r \in Reqs : Exhausted(r) /\ req'[r].pc = "idle" /\ ~HoldsData)
           /\ (output'.status = 503)
                => /\ output' = UnavailableResponse(output'.query, output'.now)
                   /\ output'.status
                        # InternalErrorResponse(output'.query, output'.now).status
                   /\ output'.error
                        # InternalErrorResponse(output'.query, output'.now).error
                   /\ calendarCache' = calendarCache
                   /\ calendarCache'.data = {}]_vars

\* A request has been answered 503 and the cache is empty.
C5_Witness ==
    /\ output.kind = "response"
    /\ output.status = 503
    /\ ~output.success
    /\ calendarCache.data = {}

\* C6: the step in which a background refresh fails changes nothing in the
\* cache but fetchInProgress, which becomes false; and no step in which the
\* fetch of a running refresh moves changes the cache at all.
C6_RefreshFailure ==
    [][\A b \in Bgs :
         /\ (bg[b] = "running" /\ fetch[BgTask(b)].phase = "rejected" /\ bg'[b] = "idle")
            => calendarCache' = [calendarCache EXCEPT !.fetchInProgress = FALSE]
         /\ (bg[b] = "running" /\ bg'[b] = "running"
                /\ fetch'[BgTask(b)] # fetch[BgTask(b)])
            => calendarCache' = calendarCache]_vars

\* A background refresh has just failed over an entry that is still there.
C6_Witness ==
    \E b \in Bgs :
        /\ output = RefreshLog(b, "Background refresh failed")
        /\ calendarCache.data # {}
        /\ calendarCache.timestamp > 0
        /\ ~calendarCache.fetchInProgress

\* C7: a request that arrives in the stale tier is answered with success from
\* the cached events in the very step it arrives, when no background refresh
\* has settled yet; and the step in which a background refresh finishes, by
\* success or by failure, emits a log line only and touches no request.
C7_StaleIndependent ==
    [][/\ (HandlerStep /\ CALENDAR_URL /\ Stale /\ ~IsTestAnswer(output'))
          => /\ AnswersFrom(output', Data, "stale_cache")
             /\ output'.success
             /\ \A b \in Bgs : bg'[b] = "running" => fetch'[BgTask(b)].phase = "fetch"
       /\ \A b \in Bgs :
            (bg[b] = "running" /\ bg'[b] = "idle")
            => /\ output'.kind = "log"
               /\ req' = req]_vars

\* A stale entry has answered a request whose refresh has not settled.
C7_Witness ==
    /\ output.kind = "response"
    /\ output.status = 200
    /\ ~output.query.test
    /\ output.dataSource = "stale_cache"
    /\ Len(output.events) > 0
    /\ calendarCache.fetchInProgress
    /\ \E b \in Bgs : bg[b] = "running" /\ fetch[BgTask(b)] = BeginFetch

\* C8: every event of a success response starts at or after the start of
\* the day on which its request arrived.
C8_NoPastEvents ==
    (output.kind = "response" /\ output.status = 200 /\ ~output.query.test)
    => \A i \in DOMAIN output.events :
          output.events[i].startDate >= StartOfDay(output.now)

\* The timeouts of the first k strategies, in their declared order.
Declared(k) == [i \in 1..k |-> Strategies[i].timeout]

\* The run f is suspended at one of its awaits.
Running(f) == f.phase \in {"fetch", "text"}

\* The step from f to g is one in which an attempt of the run failed.
Failed(f, g) == g.lastError # f.lastError

\* C9: the strategies a run has started are a prefix of the declared order;
\* strategy k+1 starts, with its own timeout, in the step in which strategy k
\* fails, whatever the failure; a step without a failure starts no strategy;
\* a run resolves with a body in a step without a failure, and once resolved
\* it starts nothing more.
C9_CascadeOrder ==
    /\ [](\A t \in Tasks :
            fetch[t].phase # "none"
            => /\ fetch[t].strategy \in 1..Len(Strategies)
               /\ fetch[t].tried = Declared(fetch[t].strategy)
               /\ (Running(fetch[t]) /\ fetch[t].strategy > 1)
                    => /\ fetch[t].lastError # <<>>
                       /\ fetch[t].lastError[1].strategy = fetch[t].strategy - 1)
    /\ [][\A t \in Tasks :
            /\ Running(fetch[t])
               => /\ (Failed(fetch[t], fetch'[t]) /\ fetch[t].strategy < Len(Strategies))
                     => /\ fetch'[t].phase = "fetch"
                        /\ fetch'[t].strategy = fetch[t].strategy + 1
                        /\ fetch'[t].timer = <<Strategies[fetch[t].strategy + 1].timeout>>
                        /\ fetch'[t].lastError[1].strategy = fetch[t].strategy
                  /\ ~Failed(fetch[t], fetch'[t])
                     => /\ fetch'[t].strategy = fetch[t].strategy
                        /\ fetch'[t].tried = fetch[t].tried
                  /\ fetch'[t].phase = "resolved"
                     => /\ ~Failed(fetch[t], fetch'[t])
                        /\ fetch'[t].body # <<>>
            /\ fetch[t].phase = "resolved"
               => fetch'[t] \in {fetch[t], NoFetch}]_vars

\* A run has resolved on the third strategy after the second timed out.
C9_Witness ==
    \E t \in Tasks :
        /\ fetch[t].phase = "resolved"
        /\ fetch[t].strategy = 3
        /\ fetch[t].lastError # <<>>
        /\ fetch[t].lastError[1].name = "AbortError"
        /\ fetch[t].lastError[1].strategy = 2

\* C10: a rejected run has started every strategy and carries the error of
\* the last one; a run is rejected in the step in which its last strategy
\* fails, and in no other.
C10_Exhaustion ==
    /\ [](\A t \in Tasks :
            fetch[t].phase = "rejected"
            => /\ fetch[t].strategy = Len(Strategies)
               /\ fetch[t].tried = Declared(Len(Strategies))
               /\ fetch[t].lastError # <<>>
               /\ fetch[t].lastError[1].strategy = Len(Strategies))
    /\ [][\A t \in Tasks :
            Running(fetch[t])
            => (fetch'[t].phase = "rejected")
                 <=> (Failed(fetch[t], fetch'[t]) /\ fetch[t].strategy = Len(Strategies))]_vars

\* A run has been rejected with the timeout of the last strategy.
C10_Witness ==
    \E t \in Tasks :
        /\ fetch[t].phase = "rejected"
        /\ fetch[t].lastError # <<>>
        /\ fetch[t].lastError[1].name = "AbortError"
        /\ fetch[t].lastError[1].strategy = 3

(***************************************************************************)
(* The blocks of a document, read off its lines without the loop           *)
(***************************************************************************)
IsBegin(lines, i) == Trim(lines[i]) = <<"BEGIN:VEVENT">>

IsEnd(lines, j) == Trim(lines[j]) = <<"END:VEVENT">>

\* The index of the line that last set or cleared the builder before line j,
\* 0 if there is none.
LastMark(lines, j) ==
    LET marks == {i \in 1..(j - 1) : IsBegin(lines, i) \/ IsEnd(lines, i)}
    IN  IF marks = {} THEN 0 ELSE CHOOSE i \in marks : \A k \in marks : k <= i

\* Line j closes a block: it is an END:VEVENT and the last mark before it is
\* a BEGIN:VEVENT.
ClosesBlock(lines, j) ==
    /\ IsEnd(lines, j)
    /\ LastMark(lines, j) > 0
    /\ IsBegin(lines, LastMark(lines, j))

\* The lines of the block that line j closes.
Inside(lines, j) == (LastMark(lines, j) + 1)..(j - 1)

IsSummaryLine(line) == StartsWith(Trim(line), "SUMMARY:")

IsStartLine(line) == StartsWith(Trim(line), "DTSTART")

IsEndLine(line) == StartsWith(Trim(line), "DTEND")

\* The date of a line is one the parser stores.
Storable(line) == DateAccepted(parseICSDate(Trim(line)))

\* The last line of the set `among` in the block, <<>> if there is none.
LastOf(lines, among) ==
    IF among = {} THEN <<>>
    ELSE <<Trim(lines[CHOOSE k \in among : \A l \in among : l <= k])>>

BlockSummary(lines, j) ==
    LastOf(lines, {k \in Inside(lines, j) : IsSummaryLine(lines[k])})

BlockStart(lines, j) ==
    LastOf(lines, {k \in Inside(lines, j) : IsStartLine(lines[k]) /\ Storable(lines[k])})

BlockEnd(lines, j) ==
    LastOf(lines, {k \in Inside(lines, j) : IsEndLine(lines[k]) /\ Storable(lines[k])})

\* The block has a non-empty SUMMARY and a DTSTART that parses to a date the
\* parser stores (a date of a year after 2020).
WellFormed(lines, j) ==
    /\ ClosesBlock(lines, j)
    /\ BlockSummary(lines, j) # <<>>
    /\ Len(Tail(BlockSummary(lines, j)[1])) > 0
    /\ BlockStart(lines, j) # <<>>

\* The block is well-formed and its start is not before the day `today`.
Emitted(lines, j, today) ==
    /\ WellFormed(lines, j)
    /\ getTime(parseICSDate(BlockStart(lines, j)[1])) >= today

\* The event of the block that line j closes.
BlockEvent(lines, j) ==
    LET base == [summary |-> Tail(BlockSummary(lines, j)[1]),
                 dtstart |-> parseICSDate(BlockStart(lines, j)[1])]
    IN  IF BlockEnd(lines, j) = <<>> THEN base
        ELSE SetField(base, "dtend", parseICSDate(BlockEnd(lines, j)[1]))

\* The events of the emitted blocks among the first n lines, in the order of
\* the lines.
RECURSIVE EmittedEvents(_, _, _)
EmittedEvents(lines, n, today) ==
    IF n = 0 THEN <<>>
    ELSE IF Emitted(lines, n, today)
         THEN Append(EmittedEvents(lines, n - 1, today), BlockEvent(lines, n))
         ELSE EmittedEvents(lines, n - 1, today)

\* The summaries of the well-formed blocks among the first n lines, in the
\* order of the lines.
RECURSIVE WellFormedSummaries(_, _)
WellFormedSummaries(lines, n) ==
    IF n = 0 THEN <<>>
    ELSE IF WellFormed(lines, n)
         THEN Append(WellFormedSummaries(lines, n - 1), Tail(BlockSummary(lines, n)[1]))
         ELSE WellFormedSummaries(lines, n - 1)

Returned == parser.phase = "returned"

\* C11 as stated: parseCalendarData returns one event for each block that
\* has a non-empty SUMMARY and a DTSTART that parses (to a date of a year
\* after 2020), in the order of the blocks, and no other event.
C11_OnePerWellFormedBlock ==
    Returned
    => [i \in 1..Len(parser.st.events) |-> parser.st.events[i].summary]
          = WellFormedSummaries(parser.lines, Len(parser.lines))

\* C11 amended: parseCalendarData returns one event for each block that has
\* a non-empty SUMMARY and a DTSTART that parses to a date of a year after
\* 2020 and not before the start of the day of the call, in the order of the
\* blocks, and no other event.
C11_OnePerEmittedBlock ==
    Returned
    => parser.st.events = EmittedEvents(parser.lines, Len(parser.lines), parser.today)

\* A document with two emitted blocks between blocks that are not emitted
\* has been parsed.
C11_Witness ==
    /\ Returned
    /\ Len(parser.st.events) = 2
    /\ parser.st.events[1] # parser.st.events[2]
    /\ \E j \in 1..Len(parser.lines) :
          ClosesBlock(parser.lines, j) /\ ~Emitted(parser.lines, j, parser.today)

(***************************************************************************)
(* The pipeline, stage by stage                                            *)
(***************************************************************************)
\* The elements of the array that start at the instant t, in their order.
StartingAt(events, t) ==
    SelectSeq(events, LAMBDA e : getTime(e.dtstart) = t)

Ascending(events) ==
    \A i, j \in DOMAIN events :
        i < j => getTime(events[i].dtstart) <= getTime(events[j].dtstart)

\* b holds the elements of a in ascending order of start, those of equal
\* start in the order they have in a.
IsStableSortOf(b, a) ==
    /\ Len(b) = Len(a)
    /\ Ascending(b)
    /\ \A i \in DOMAIN a :
          StartingAt(b, getTime(a[i].dtstart)) = StartingAt(a, getTime(a[i].dtstart))

\* The events of the document that the keyword of the request selects, in
\* the order of the document.
Matching == KeywordFilter(pipeline.document, pipeline.keyword)

\* C12: once sorted, the array of the response holds the matching events of
\* the document in ascending order of start, those of equal start in the
\* order of the document, whatever order the request found the array in;
\* the events of the response are the first of them, in that order.
C12_StableAscending ==
    /\ pipeline.stage \in {"sorted", "limited", "answered"}
          => IsStableSortOf(pipeline.sorted, Matching)
    /\ pipeline.stage = "answered"
          => /\ Len(pipeline.formattedEvents) <= Len(pipeline.sorted)
             /\ pipeline.formattedEvents
                   = Formatted(SubSeq(pipeline.sorted, 1, Len(pipeline.formattedEvents)))
             /\ \A i, j \in DOMAIN pipeline.formattedEvents :
                   i < j => pipeline.formattedEvents[i].startDate
                               <= pipeline.formattedEvents[j].startDate

\* A request served from an array that an earlier request had reordered,
\* of a document not in order of start, has answered two events that start
\* together.
C12_Witness ==
    /\ pipeline.stage = "answered"
    /\ ~Ascending(pipeline.document)
    /\ pipeline.input # pipeline.document
    /\ \E i, j \in DOMAIN pipeline.formattedEvents :
          /\ i < j
          /\ pipeline.formattedEvents[i].startDate = pipeline.formattedEvents[j].startDate
          /\ pipeline.formattedEvents[i].summary # pipeline.formattedEvents[j].summary

\* The string str holds the string sub, letter case ignored.
ContainsIgnoringCase(str, sub) ==
    \E i \in 0..(Len(str) - Len(sub)) :
        \A k \in 1..Len(sub) : LowerOf(str[i + k]) = LowerOf(sub[k])

\* The elements of the array whose summary holds the string sub, letter case
\* ignored, in their order.
WithSummaryHolding(events, sub) ==
    SelectSeq(events, LAMBDA e : ContainsIgnoringCase(e.summary, sub))

\* C13 as stated: with a keyword parameter the filter keeps exactly the
\* events whose summary holds the parameter, letter case ignored; with none
\* it keeps all events.
C13_KeywordAsGiven ==
    pipeline.stage = "filtered"
    => pipeline.filtered
          = IF pipeline.query.keyword = <<>> THEN pipeline.input
            ELSE WithSummaryHolding(pipeline.input, pipeline.query.keyword[1])

\* C13 amended: the filter keeps exactly the events whose summary holds the
\* keyword parameter stripped of the blanks around it, letter case ignored;
\* with no parameter, or one that is empty once stripped, it keeps all
\* events; the kept events stay in their order, and filtering them again
\* with the same keyword keeps them all.
C13_KeywordStripped ==
    pipeline.stage = "filtered"
    => /\ pipeline.filtered
             = IF pipeline.query.keyword = <<>> \/ Trim(pipeline.query.keyword[1]) = <<>>
               THEN pipeline.input
               ELSE WithSummaryHolding(pipeline.input, Trim(pipeline.query.keyword[1]))
       /\ KeywordFilter(pipeline.filtered, pipeline.keyword) = pipeline.filtered

\* A keyword in capitals with blanks around it has kept some events of the
\* array and dropped others.
C13_Witness ==
    /\ pipeline.stage = "filtered"
    /\ pipeline.query.keyword = << <<" ", "M", "A", " ">> >>
    /\ Len(pipeline.filtered) >= 2
    /\ Len(pipeline.filtered) < Len(pipeline.input)

\* The limit parameter is a positive integer in decimal digits.
IsPositiveInteger(str) ==
    /\ Len(str) >= 1
    /\ \A k \in 1..Len(str) : IsDigit(str[k])
    /\ \E k \in 1..Len(str) : str[k] # "0"

\* The limit the request asks for: its parameter, or 100 without one.
RequestedLimit ==
    IF pipeline.query.limit = <<>> THEN 100 ELSE ParseInt(pipeline.query.limit[1])

\* C14: for a request whose limit parameter is absent or a positive integer,
\* the response holds at most `limit` events (the parameter, or 100 when
\* absent), namely the first `limit` of the sorted matching events when more
\* match and all of them otherwise; for every request the count field is the
\* number of events the response holds.
C14_ResultCap ==
    pipeline.stage = "answered"
    => /\ pipeline.count = Len(pipeline.formattedEvents)
       /\ (pipeline.query.limit = <<>> \/ IsPositiveInteger(pipeline.query.limit[1]))
             => /\ Len(pipeline.formattedEvents) <= RequestedLimit
                /\ pipeline.formattedEvents
                      = Formatted(IF Len(pipeline.sorted) > RequestedLimit
                                  THEN SubSeq(pipeline.sorted, 1, RequestedLimit)
                                  ELSE pipeline.sorted)

\* A request with limit 2 matched three events and was answered with two.
C14_Witness ==
    /\ pipeline.stage = "answered"
    /\ pipeline.query.limit = << <<"2">> >>
    /\ Len(pipeline.sorted) = 3
    /\ Len(pipeline.formattedEvents) = 2
    /\ pipeline.count = 2

\* The instant falls on hour 0 and minute 0 of a day of the process's clock.
OnZeroHourAndMinute(t) == t % SecondsPerDay < SecondsPerMinute

\* C15: every formatted event is all-day exactly when it has no end or both
\* its start and its end have hour 0 and minute 0; an all-day event has no
\* time part in startFormatted and a null endFormatted, and any other event
\* has a time part in both.
C15_AllDay ==
    pipeline.stage = "answered"
    => \A i \in DOMAIN pipeline.formattedEvents :
          LET f == pipeline.formattedEvents[i]
          IN  /\ f.isAllDay
                    <=> \/ f.endDate = <<>>
                        \/ /\ OnZeroHourAndMinute(f.startDate)
                           /\ OnZeroHourAndMinute(f.endDate[1])
              /\ f.isAllDay => f.startFormatted.time = <<>> /\ f.endFormatted = <<>>
              /\ ~f.isAllDay
                    => /\ f.startFormatted.time # <<>>
                       /\ f.endFormatted # <<>>
                       /\ f.endFormatted[1].time # <<>>

\* A response holds an all-day event that has an end, and an event that
\* starts at midnight and is not all-day.
C15_Witness ==
    /\ pipeline.stage = "answered"
    /\ \E i, j \in DOMAIN pipeline.formattedEvents :
          /\ pipeline.formattedEvents[i].isAllDay
          /\ pipeline.formattedEvents[i].endDate # <<>>
          /\ pipeline.formattedEvents[i].endFormatted = <<>>
          /\ pipeline.formattedEvents[i].startFormatted = [date |-> <<2, 11, 2026>>, time |-> <<>>]
          /\ ~pipeline.formattedEvents[j].isAllDay
          /\ pipeline.formattedEvents[j].startFormatted
                = [date |-> <<2, 11, 2026>>, time |-> << <<1, 0>> >>]

\* The entry after this step holds the array `events`, in some order of its
\* elements, and the timestamp `now`.
EntryOf(events, now) ==
    /\ calendarCache'.data # {}
    /\ \A array \in calendarCache'.data : SameEvents(array, events)
    /\ calendarCache'.timestamp = now
    /\ calendarCache'.lastSuccessfulFetch = now

\* This step ends the fetch of task t, resolved with a body, and leaves in
\* the cache the events parsed from that body with the timestamp of t: the
\* arrival of the request for a request, the instant of the step for a
\* refresh.
InstallsResultOf(t) ==
    /\ fetch[t].phase = "resolved"
    /\ fetch'[t] = NoFetch
    /\ EntryOf(parseCalendarData(fetch[t].body[1], clock),
               IF t[1] = "req" THEN req[t[2]].now ELSE clock)

\* C16: whatever the interleaving of requests and refreshes, the events and
\* the timestamp of the cache entry change only in a step that installs
\* both from the result of one resolved fetch; any other step, a request
\* that reads the entry included, finds and leaves the events and the
\* timestamp of one install.
C16_NoTornEntry ==
    [][(\/ calendarCache'.timestamp # calendarCache.timestamp
        \/ calendarCache'.lastSuccessfulFetch # calendarCache.lastSuccessfulFetch
        \/ (calendarCache'.data = {}) # (calendarCache.data = {})
        \/ \E a \in calendarCache.data : \E b \in calendarCache'.data : ~SameEvents(a, b))
       => \E t \in Tasks : InstallsResultOf(t)]_vars

\* A refresh has just replaced the entry while a request awaits a fetch of
\* its own.
C16_Witness ==
    /\ output.kind = "log"
    /\ output.message = "Background refresh successful"
    /\ calendarCache.timestamp = clock
    /\ calendarCache.timestamp > StartTime
    /\ calendarCache.data # {}
    /\ \E r \in Reqs : req[r].pc = "fetching"

\* This step ends invocation b of backgroundRefresh.
Finished(b) == bg[b] = "running" /\ bg'[b] = "idle"

\* C17: in every reachable state fetchInProgress is true only if an
\* invocation of backgroundRefresh is running; and every step in which an
\* invocation finishes, by success or by failure, leaves fetchInProgress
\* false.
C17_FlagFollowsRefresh ==
    /\ [](calendarCache.fetchInProgress => RefreshInFlight)
    /\ [][\A b \in Bgs : Finished(b) => ~calendarCache'.fetchInProgress]_vars

\* A refresh has just failed on a stale entry, none is running and the flag
\* is down: the next stale-tier request starts a new one.
C17_Witness ==
    /\ output.kind = "log"
    /\ output.message = "Background refresh failed"
    /\ Stale
    /\ ~RefreshInFlight
    /\ ~calendarCache.fetchInProgress

\* C18: every attempt is bounded by its timeout over the whole retrieval: a
\* run suspended at an await, be it for the response or for its body, has
\* the timer of its attempt armed, so that the attempt is aborted when the
\* timeout expires.
C18_AttemptBounded ==
    \A t \in Tasks : Running(fetch[t]) => TimerArmed(t)

\* The body has at least 50 characters and one of the two markers on one of
\* its lines.
Plausible(icsData) ==
    /\ ~(icsData.length < 50)
    /\ \E i \in DOMAIN icsData.lines :
          \E marker \in {"BEGIN:VCALENDAR", "BEGIN:VEVENT"} :
             \E k \in DOMAIN icsData.lines[i] : icsData.lines[i][k] = marker

ValidationErrors ==
    {"Response too short, likely not a calendar file",
     "Invalid calendar format - missing VCALENDAR/VEVENT"}

\* C19: every body a run of fetchCalendarWithFallback resolves with has at
\* least 50 characters and one of the two markers, and so has every body
\* whose events are installed in the cache; a run resolves only in the step
\* in which a body arrives, and that step either resolves the run with the
\* body, without a failure, or is the failure of the attempt with one of the
\* two validation errors; a response whose status is not success is a
\* failure of the attempt and never resolves the run.
C19_PayloadValidation ==
    /\ [](\A t \in Tasks :
            fetch[t].phase = "resolved"
            => fetch[t].body # <<>> /\ Plausible(fetch[t].body[1]))
    /\ [][\A t \in Tasks :
            /\ (fetch[t].phase = "text" /\ fetch'[t] # fetch[t])
                  => \/ /\ fetch'[t].phase = "resolved"
                        /\ ~Failed(fetch[t], fetch'[t])
                        /\ Plausible(fetch'[t].body[1])
                     \/ /\ Failed(fetch[t], fetch'[t])
                        /\ fetch'[t].phase # "resolved"
                        /\ fetch'[t].lastError[1].message \in ValidationErrors
                        /\ fetch'[t].lastError[1].strategy = fetch[t].strategy
            /\ (fetch[t].phase # "resolved" /\ fetch'[t].phase = "resolved")
                  => fetch[t].phase = "text"
            /\ InstallsResultOf(t) => Plausible(fetch[t].body[1])]_vars

\* A run whose second attempt failed on a body without a marker has resolved
\* with a body that has one of the two markers only.
C19_Witness ==
    \E t \in Tasks :
        /\ fetch[t].phase = "resolved"
        /\ fetch[t].body = <<FeedB>>
        /\ fetch[t].strategy = 3
        /\ fetch[t].lastError # <<>>
        /\ fetch[t].lastError[1].message = "Invalid calendar format - missing VCALENDAR/VEVENT"

\* This step answers a request from the events the cache holds.
ServedFromCache ==
    /\ output = NoOutput
    /\ output'.kind = "response"
    /\ output'.status = 200
    /\ ~output'.query.test
    /\ output'.dataSource \in {"fresh_cache", "stale_cache", "emergency_cache"}

\* C20: a request served from the cache, by the fresh, the stale or the
\* emergency path, with or without a keyword, leaves the cached sequence as
\* it is, the order of its elements included.
C20_CachedSequenceUnchanged ==
    [][ServedFromCache => calendarCache'.data = calendarCache.data]_vars

\* The first instant of the year 2021.
After2020 == DaysFromCivil(2021, 1, 1) * SecondsPerDay

\* The date is a valid one of a year after 2020.
OfYearAfter2020(date) == date.kind = "Date" /\ date.time >= After2020

\* The event has a non-empty summary and a start of a year after 2020.
ValidEvent(e) ==
    /\ Has(e, "summary") /\ e.summary # <<>>
    /\ Has(e, "dtstart") /\ OfYearAfter2020(e.dtstart)

\* C21: in every state, every event parseCalendarData has collected, every
\* event the cache holds and every event of a response has a non-empty
\* summary and a start of a year after 2020; and the event under construction
\* never holds a start that is not a valid date of a year after 2020.
C21_EventInvariant ==
    /\ parser.phase # "none"
          => /\ \A i \in DOMAIN parser.st.events : ValidEvent(parser.st.events[i])
             /\ \A e \in {parser.st.currentEvent[k] : k \in DOMAIN parser.st.currentEvent} :
                   Has(e, "dtstart") => OfYearAfter2020(e.dtstart)
    /\ \A array \in calendarCache.data : \A i \in DOMAIN array : ValidEvent(array[i])
    /\ (output.kind = "response" /\ output.status = 200 /\ ~output.query.test)
          => \A i \in DOMAIN output.events :
                /\ output.events[i].summary # <<>>
                /\ output.events[i].startDate >= After2020

\* The call has returned an event from a document that also has a start of
\* the year 2020 and a start that is an Invalid Date.
C21_Witness ==
    /\ parser.phase = "returned"
    /\ Len(parser.st.events) = 1
    /\ \E i, j \in DOMAIN parser.lines :
          /\ parser.lines[i] = <<"DTSTART", ":">> \o D20201103
          /\ parser.lines[j] = <<"DTSTART", ":", "2", "0", "2", "6", "a", "b", "0", "2">>

\* Line k is a DTEND line whose date fails to parse or is of a year <= 2020.
RefusedEnd(lines, k) ==
    /\ IsEndLine(lines[k])
    /\ ~IsBegin(lines, k) /\ ~IsEnd(lines, k)
    /\ ~OfYearAfter2020(parseICSDate(Trim(lines[k])))

\* The document without its line k.
Without(lines, k) == SubSeq(lines, 1, k - 1) \o SubSeq(lines, k + 1, Len(lines))

\* C22: the iteration on a DTEND line whose date is refused changes neither
\* the event under construction nor the events collected; the call returns,
\* and only after the last line, whatever the lines are; the events returned
\* are those of the document without the refused DTEND line; and a block
\* that is emitted and whose DTEND lines are all refused gives an event
\* without an end.
C22_EndRecovery ==
    /\ [][(/\ parser.phase = "loop"
           /\ parser'.i = parser.i + 1
           /\ RefusedEnd(parser.lines, parser.i + 1))
          => parser'.st = parser.st]_vars
    /\ [][parser.phase = "loop"
          => /\ parser'.phase \in {"loop", "returned"}
             /\ parser'.phase = "returned" => parser.i = Len(parser.lines)
             /\ parser'.phase = "loop" => parser'.i = parser.i + 1]_vars
    /\ [](Returned
          => /\ \A k \in DOMAIN parser.lines :
                   RefusedEnd(parser.lines, k)
                   => parser.st.events
                         = parseLines([events |-> <<>>, currentEvent |-> <<>>],
                                      Without(parser.lines, k), parser.today).events
             /\ \A j \in DOMAIN parser.lines :
                   (/\ Emitted(parser.lines, j, parser.today)
                    /\ \E k \in Inside(parser.lines, j) : RefusedEnd(parser.lines, k)
                    /\ \A k \in Inside(parser.lines, j) :
                          IsEndLine(parser.lines[k]) => RefusedEnd(parser.lines, k))
                   => \E i \in DOMAIN parser.st.events :
                         /\ parser.st.events[i].summary = Tail(BlockSummary(parser.lines, j)[1])
                         /\ ~Has(parser.st.events[i], "dtend"))

\* The call has returned the event of a block whose end was refused, without
\* an end, and after it the event of a later block.
C22_Witness ==
    /\ Returned
    /\ Len(parser.st.events) = 2
    /\ parser.st.events[1].summary = <<"e">>
    /\ ~Has(parser.st.events[1], "dtend")
    /\ \E k \in DOMAIN parser.lines : RefusedEnd(parser.lines, k)

\* The loop is about to read line parser.i + 1.
Reading == parser.phase = "loop" /\ parser'.phase = "loop" /\ parser'.i = parser.i + 1

OutsideEvent == parser.st.currentEvent = <<>>

InsideEvent == Len(parser.st.currentEvent) = 1

\* The value that line k gives to the field it sets.
ValueOf(lines, k) ==
    IF IsSummaryLine(lines[k]) THEN Tail(Trim(lines[k])) ELSE parseICSDate(Trim(lines[k]))

FieldLine(lines, k, field) ==
    IF field = "summary" THEN IsSummaryLine(lines[k])
    ELSE IF field = "dtstart" THEN IsStartLine(lines[k])
    ELSE field = "dtend" /\ IsEndLine(lines[k])

\* C23: the parser is outside an event or inside one, with one event under
\* construction at most.  Outside an event, a line that is not BEGIN:VEVENT
\* (a property line or an END:VEVENT) adds no event and starts none.  Inside
\* an event, BEGIN:VEVENT replaces the event under construction by an empty
\* one and adds no event.  Returning adds no event, so a block left open is
\* not emitted.  An event is added only by an END:VEVENT that closes a block,
\* and each of its fields has the value of a line between the BEGIN:VEVENT
\* and the END:VEVENT of that block.
C23_ParserStates ==
    /\ [](parser.phase # "none" => OutsideEvent \/ InsideEvent)
    /\ [][(Reading /\ OutsideEvent /\ ~IsBegin(parser.lines, parser.i + 1))
          => parser'.st = parser.st]_vars
    /\ [][(Reading /\ InsideEvent /\ IsBegin(parser.lines, parser.i + 1))
          => /\ parser'.st.currentEvent = <<EmptyEvent>>
             /\ parser'.st.events = parser.st.events]_vars
    /\ [][(parser.phase = "loop" /\ parser'.phase = "returned")
          => parser'.st.events = parser.st.events]_vars
    /\ [][(Reading /\ parser'.st.events # parser.st.events)
          => LET j == parser.i + 1
                 e == parser'.st.events[Len(parser'.st.events)]
             IN  /\ ClosesBlock(parser.lines, j)
                 /\ InsideEvent
                 /\ parser'.st.events = Append(parser.st.events, e)
                 /\ parser'.st.currentEvent = <<>>
                 /\ DOMAIN e \subseteq {"summary", "dtstart", "dtend"}
                 /\ \A field \in DOMAIN e :
                       \E k \in Inside(parser.lines, j) :
                          /\ FieldLine(parser.lines, k, field)
                          /\ e[field] = ValueOf(parser.lines, k)]_vars

\* The call has returned from a document in which a block was left open with
\* an end and the next block, which has no end line, was emitted.
C23_Witness ==
    /\ Returned
    /\ \E i \in DOMAIN parser.st.events :
          /\ parser.st.events[i].summary = <<"M", "a", "t", "h">>
          /\ ~Has(parser.st.events[i], "dtend")
    /\ \E k \in DOMAIN parser.lines :
          /\ k + 2 <= Len(parser.lines)
          /\ IsEndLine(parser.lines[k])
          /\ IsBegin(parser.lines, k + 1)
          /\ parser.lines[k + 2] = <<"SUMMARY:", "M", "a", "t", "h">>

\* C24: while an invocation of backgroundRefresh is running fetchInProgress
\* is true, and at most one invocation is running.
C24_SingleRefresh ==
    /\ RefreshInFlight => calendarCache.fetchInProgress
    /\ Cardinality({b \in Bgs : bg[b] = "running"}) <= 1

\* C25: no step lowers the timestamp of the cache entry.
C25_TimestampMonotonic ==
    [][calendarCache'.timestamp >= calendarCache.timestamp]_vars

\* C26: once the result of a fetch has been installed the cache holds data
\* in every later state, whatever fails afterwards, and no request is
\* answered with the 503 from then on.
C26_NeverEmptyAgain ==
    /\ [][HoldsData => calendarCache'.data # {}]_vars
    /\ [](calendarCache.timestamp # 0 => HoldsData)
    /\ [][HoldsData
          => ~(/\ output' # output
               /\ output'.kind = "response"
               /\ output'.status = 503)]_vars

\* With an entry a day old or more in the cache and no refresh running, a
\* request whose fetch failed on every strategy has been answered from the
\* cache.
C26_Witness ==
    /\ output.kind = "response"
    /\ output.status = 200
    /\ ~output.query.test
    /\ output.dataSource = "emergency_cache"
    /\ HoldsData
    /\ Age >= maxStaleAge
    /\ ~RefreshInFlight
    /\ \A r \in Reqs : req[r].pc = "idle"

\* Request q awaits its fetch.
Fetching(q) == req[q].pc = "fetching"

\* C27: a request that arrives in the expired-or-absent tier while another
\* request awaits its fetch starts a run of fetchCalendarWithFallback of its
\* own, from the first strategy, and leaves the other's run as it is; and
\* whenever the fetch of a request resolves, whatever other requests have
\* installed in the meantime, the cache holds after the step the events
\* parsed from that request's body with that request's timestamp, the
\* request is answered from those events, and the other requests and their
\* runs are untouched.
C27_NoDeduplication ==
    /\ [][(/\ HandlerStep /\ CALENDAR_URL /\ Expired /\ ~IsTestAnswer(output')
           /\ \E q \in Reqs : Fetching(q))
          => \E r \in Reqs :
                /\ ~Fetching(r)
                /\ req'[r].pc = "fetching"
                /\ fetch'[ReqTask(r)] = BeginFetch
                /\ \A q \in Reqs \ {r} :
                      req'[q] = req[q] /\ fetch'[ReqTask(q)] = fetch[ReqTask(q)]]_vars
    /\ [][\A r \in Reqs :
            (Fetching(r) /\ fetch[ReqTask(r)].phase = "resolved" /\ ~Fetching(r)')
            => LET parsedEvents == parseCalendarData(fetch[ReqTask(r)].body[1], clock)
               IN  /\ EntryOf(parsedEvents, req[r].now)
                   /\ AnswersFrom(output', parsedEvents, "fresh_fetch")
                   /\ output'.query = req[r].query
                   /\ \A q \in Reqs \ {r} :
                         req'[q] = req[q] /\ fetch'[ReqTask(q)] = fetch[ReqTask(q)]]_vars

\* A request has been answered from its own fetch and its entry is in the
\* cache, while a request that arrived before it still awaits a fetch of its
\* own, whose install will replace that entry.
C27_Witness ==
    /\ output.kind = "response"
    /\ output.status = 200
    /\ ~output.query.test
    /\ output.dataSource = "fresh_fetch"
    /\ calendarCache.timestamp = output.now
    /\ \E q \in Reqs :
          /\ Fetching(q)
          /\ Running(fetch[ReqTask(q)])
          /\ req[q].now < output.now

\* C28: in every success response isStale is true exactly when the response
\* was served as "stale_cache" or "emergency_cache" (and so false exactly
\* when it was served as "fresh_cache" or "fresh_fetch").
C28_StaleFlagAgrees ==
    (output.kind = "response" /\ output.status = 200 /\ ~output.query.test)
    => /\ output.dataSource \in {"fresh_cache", "stale_cache", "fresh_fetch", "emergency_cache"}
       /\ output.isStale <=> output.dataSource \in {"stale_cache", "emergency_cache"}

\* The events the cache holds, as a collection, are the same before and
\* after the step.
HoldsSameEvents ==
    /\ (calendarCache'.data = {}) <=> (calendarCache.data = {})
    /\ \A a \in calendarCache.data : \A b \in calendarCache'.data : SameEvents(a, b)

\* C29: in every state the cache holds data exactly when its timestamp is
\* not zero, lastSuccessfulFetch equals timestamp, ttl is 15 minutes and
\* maxStaleAge 24 hours; and data, timestamp, lastSuccessfulFetch, ttl and
\* maxStaleAge change only in a step that installs the result of a resolved
\* fetch.
C29_CacheConsistency ==
    /\ [](/\ HoldsData <=> calendarCache.timestamp # 0
          /\ calendarCache.lastSuccessfulFetch = calendarCache.timestamp
          /\ calendarCache.ttl = 15 * SecondsPerMinute
          /\ calendarCache.maxStaleAge = 24 * SecondsPerHour
          /\ calendarCache.maxStaleAge >= calendarCache.ttl)
    /\ [][(\/ ~HoldsSameEvents
           \/ calendarCache'.timestamp # calendarCache.timestamp
           \/ calendarCache'.lastSuccessfulFetch # calendarCache.lastSuccessfulFetch
           \/ calendarCache'.ttl # calendarCache.ttl
           \/ calendarCache'.maxStaleAge # calendarCache.maxStaleAge)
          => \E t \in Tasks : InstallsResultOf(t)]_vars

\* An entry installed after the process started has aged into the stale
\* tier and a request has been served from it, a refresh being started.
C29_Witness ==
    /\ output.kind = "response"
    /\ output.status = 200
    /\ ~output.query.test
    /\ output.dataSource = "stale_cache"
    /\ calendarCache.timestamp > StartTime
    /\ calendarCache.lastSuccessfulFetch = calendarCache.timestamp
    /\ calendarCache.fetchInProgress
    /\ HoldsData

====
